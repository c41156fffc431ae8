------------------------- MODULE SessionPersistence -------------------------
(***************************************************************************)
(* What survives of the baskets (session/yaml_persistence.py, and the      *)
(* saving, recovering and stopping parts of door_session_store.py).        *)
(*                                                                         *)
(* Every change of a basket hands a copy of it to a pool of threads, which *)
(* writes it to active/<id>.yaml while the basket is open and to           *)
(* completed/<date>/<id>.yaml once it is finalized.  The process can die   *)
(* at any step; the next start loads the files of active/.                 *)
(*                                                                         *)
(*   memory    per zone, the open basket                                   *)
(*   seen      number of triggers so far: the clock that orders baskets    *)
(*   jobs      saves handed over and not yet taken by a thread             *)
(*   thread    per thread, the save it is doing                            *)
(*   open      active/<id>.yaml: basket |-> last trigger the file holds    *)
(*   done      completed/<date>/<id>.yaml                                  *)
(*   phase     "up", "draining" (shutdown waits for the pool), "clearing"  *)
(*             (clear_all saves on the caller's thread), "down"            *)
(*   day       the date                                                    *)
(*   lives     starts of the process                                       *)
(*   late      baskets seen to be past a timeout: they stay past it        *)
(*   handed    copies handed over since the last crash: a record of what   *)
(*             happened, no guard reads it                                 *)
(*   failures  file operations that failed (a start with files it cannot   *)
(*             read counts once)                                           *)
(*                                                                         *)
(* Triggers are numbered as they come.  A basket is named by its first     *)
(* trigger, and a copy of it is abstracted to the last one it holds        *)
(* (last_trigger_at): it holds those of the basket up to it.  The write of *)
(* a file is one step: a temporary file, whose name recovery does not      *)
(* match, is renamed over the target (POSIX), so a crash leaves all of it  *)
(* or none.                                                                *)
(***************************************************************************)
EXTENDS Naturals, SequencesExt

CONSTANTS
  Zone,         \* shelves
  Pool,         \* threads of _yaml_executor (the code has two)
  Loop,         \* the event loop's thread, which runs clear_all
  MaxTriggers,  \* bound: triggers
  MaxLives,     \* bound: starts of the process
  MaxDay,       \* bound: days
  KeepDays,     \* yaml_retention_days
  MaxFailures,  \* bound: file operations that fail
  Crashes       \* TRUE: the process may die at any step

ASSUME PersistenceAssumption ==
  /\ Zone # {} /\ IsFiniteSet(Zone) /\ Pool # {} /\ Loop \notin Pool
  /\ MaxTriggers \in Nat \ {0} /\ MaxLives \in Nat \ {0}
  /\ MaxDay \in Nat /\ KeepDays \in Nat /\ MaxFailures \in Nat
  /\ Crashes \in BOOLEAN

VARIABLES memory, seen, jobs, thread, open, done, phase, day, lives,
          late, handed, failures

vars == <<memory, seen, jobs, thread, open, done, phase, day, lives,
          late, handed, failures>>

Thread == Pool \cup {Loop}

\* door_zone_<zone>_<date>_<time>: the time is that of its first trigger.
Basket == [zone : Zone, time : 1..MaxTriggers, day : 0..MaxDay]

Copy == [basket : Basket, last : 1..MaxTriggers, status : {"active", "complete"}]

CopyOf(b, last, status) == [basket |-> b, last |-> last, status |-> status]

NoBasket == [last |-> 0]
Idle == [step |-> "idle"]

Init ==
  /\ memory = [z \in Zone |-> NoBasket]
  /\ seen = 0
  /\ jobs = <<>>
  /\ thread = [t \in Thread |-> Idle]
  /\ open = <<>>
  /\ done = <<>>
  /\ phase = "up"
  /\ day = 0
  /\ lives = 1
  /\ late = {}
  /\ handed = {}
  /\ failures = 0

MayFail == failures < MaxFailures

-----------------------------------------------------------------------------
(* Handing copies over *)

HandOver(copies) ==
  /\ jobs' = jobs \o copies
  /\ handed' = handed \cup Range(copies)

\* Mistake: counts the trigger to come.
CompletedOneMore(b) == CopyOf(b.basket, b.last + 1, "complete")

Completed(b) == CopyOf(b.basket, b.last, "complete")

\* add_trigger: the basket it may replace, then the basket it appends to.
AddTrigger(z) ==
  /\ phase = "up"
  /\ seen < MaxTriggers
  /\ seen' = seen + 1
  /\ \E replace \in IF memory[z] = NoBasket THEN {TRUE} ELSE BOOLEAN :
       LET old == IF replace /\ memory[z] # NoBasket THEN {memory[z].basket} ELSE {}
           b   == IF replace THEN [zone |-> z, time |-> seen + 1, day |-> day]
                             ELSE memory[z].basket
       IN /\ memory' = [memory EXCEPT ![z] = [basket |-> b, last |-> seen + 1]]
          /\ late' = late \cup old
          /\ HandOver((IF old = {} THEN <<>> ELSE <<Completed(memory[z])>>)
                        \o <<CopyOf(b, seen + 1, "active")>>)
  /\ UNCHANGED <<thread, open, done, phase, day, lives, failures>>

Open(zones) == {z \in zones : memory[z] # NoBasket}

Dropped(zones) == [z \in Zone |-> IF z \in zones THEN NoBasket ELSE memory[z]]

Closing(zones) == SetToSeq({Completed(memory[z]) : z \in zones})

FinalizeInMemory(zones) ==
  /\ memory' = Dropped(zones)
  /\ HandOver(Closing(zones))
  /\ UNCHANGED <<seen, thread, open, done, phase, day, lives, failures>>

\* get_or_finalize and cleanup_timed_out_sessions close what has timed out.
FinalizeTimedOut ==
  /\ phase = "up"
  /\ \E zones \in SUBSET Open(Zone) \ {{}} :
       /\ FinalizeInMemory(zones)
       /\ late' = late \cup {memory[z].basket : z \in zones}

\* finalize_global_session closes every basket, whatever its age.
FinalizeGlobalSession ==
  /\ phase = "up"
  /\ Open(Zone) # {}
  /\ FinalizeInMemory(Open(Zone))
  /\ UNCHANGED late

\* finalize_session: one zone, from the API.
FinalizeSession(z) ==
  /\ phase = "up"
  /\ z \in Open(Zone)
  /\ FinalizeInMemory({z})
  /\ UNCHANGED late

-----------------------------------------------------------------------------
(* Saving *)

\* Mistake: the pool stops as soon as shutdown() is called.
MayTakeUntilShutdown(t) == IF t = Loop THEN phase = "clearing" ELSE phase = "up"

MayTake(t) == IF t = Loop THEN phase = "clearing" ELSE phase \in {"up", "draining"}

\* A thread of the pool takes the oldest save.
Take(t) ==
  /\ MayTake(t)
  /\ thread[t] = Idle
  /\ jobs # <<>>
  /\ thread' = [thread EXCEPT ![t] =
                  [step |-> IF Head(jobs).status = "active" THEN "write" ELSE "unlink",
                   copy |-> Head(jobs)]]
  /\ jobs' = Tail(jobs)
  /\ UNCHANGED <<memory, seen, open, done, phase, day, lives, late, handed, failures>>

Without(files, baskets) == Restrict(files, DOMAIN files \ baskets)

\* save of a finalized basket removes its file from active/ first; when that
\* fails it only logs.
Unlink(t) ==
  /\ thread[t].step = "unlink"
  /\ thread' = [thread EXCEPT ![t].step = "write"]
  /\ \/ open' = Without(open, {thread[t].copy.basket}) /\ UNCHANGED failures
     \/ MayFail /\ UNCHANGED open /\ failures' = failures + 1
  /\ UNCHANGED <<memory, seen, jobs, done, phase, day, lives, late, handed>>

Put(files, b, last) == [x \in DOMAIN files \cup {b} |-> IF x = b THEN last ELSE files[x]]

\* _atomic_write, under the lock.
Write(t) ==
  LET c == thread[t].copy
  IN /\ thread[t].step = "write"
     /\ IF c.status = "active"
          THEN open' = Put(open, c.basket, c.last) /\ UNCHANGED done
          ELSE done' = Put(done, c.basket, c.last) /\ UNCHANGED open
     /\ thread' = [thread EXCEPT ![t] = Idle]
     /\ UNCHANGED <<memory, seen, jobs, phase, day, lives, late, handed, failures>>

\* _safe_yaml_save: a save that fails is logged and given up.
GiveUp(t) ==
  /\ MayFail
  /\ thread[t] # Idle
  /\ thread' = [thread EXCEPT ![t] = Idle]
  /\ failures' = failures + 1
  /\ UNCHANGED <<memory, seen, jobs, open, done, phase, day, lives, late, handed>>

-----------------------------------------------------------------------------
(* Stopping, dying and starting *)

\* Lifespan's end: old completed files go, then shutdown() waits for the pool.
BeginShutdown ==
  /\ phase = "up"
  /\ phase' = "draining"
  /\ done' = Without(done, {b \in DOMAIN done : day - b.day > KeepDays})
  /\ UNCHANGED <<memory, seen, jobs, thread, open, day, lives, late, handed, failures>>

AtRest == jobs = <<>> /\ \A t \in Thread : thread[t] = Idle

\* Mistake: shutdown(wait=False, cancel_futures=True).
ClearAllAtOnce ==
  /\ phase = "draining"
  /\ phase' = "clearing"
  /\ memory' = Dropped(Zone)
  /\ jobs' = Closing(Open(Zone))
  /\ thread' = [t \in Thread |-> Idle]
  /\ handed' = handed \cup Range(jobs')
  /\ UNCHANGED <<seen, open, done, day, lives, late, failures>>

\* Once the pool is drained, cleanup_dependencies calls clear_all; the flag
\* set by shutdown() makes its saves run on the spot, one after the other.
ClearAll ==
  /\ phase = "draining"
  /\ AtRest
  /\ phase' = "clearing"
  /\ memory' = Dropped(Zone)
  /\ HandOver(Closing(Open(Zone)))
  /\ UNCHANGED <<seen, thread, open, done, day, lives, late, failures>>

Exit ==
  /\ phase = "clearing"
  /\ AtRest
  /\ phase' = "down"
  /\ UNCHANGED <<memory, seen, jobs, thread, open, done, day, lives, late, handed, failures>>

Crash ==
  /\ Crashes
  /\ phase # "down"
  /\ phase' = "down"
  /\ memory' = Dropped(Zone)
  /\ jobs' = <<>>
  /\ thread' = [t \in Thread |-> Idle]
  /\ handed' = {}
  /\ UNCHANGED <<seen, open, done, day, lives, late, failures>>

FilesOf(z, files) == {b \in DOMAIN files : b.zone = z}

\* Mistake: the first file found wins.
AnyOf(z, files) ==
  CHOOSE b \in FilesOf(z, files) : \A c \in FilesOf(z, files) : b.time <= c.time

\* Of a zone's files, the one with the latest last_trigger_at.
Newest(z, files) ==
  CHOOSE b \in FilesOf(z, files) : \A c \in FilesOf(z, files) : files[b] >= files[c]

Recovered(files) == {z \in Zone : FilesOf(z, files) # {}}

Found(z, files) == [basket |-> Newest(z, files), last |-> files[Newest(z, files)]]

\* A basket once past a timeout stays past it, and so does one whose last
\* trigger came before all of those of a basket that is.
IsLate(b) == b.basket \in late \/ \E c \in late : b.last < c.time

\* load gives None for a file it cannot read or parse, which stays where it is.
Readable == IF MayFail THEN SUBSET DOMAIN open ELSE {DOMAIN open}

\* recover_active_sessions: a basket past its timeout is finalized at once.
Start ==
  /\ phase = "down"
  /\ lives < MaxLives
  /\ lives' = lives + 1
  /\ phase' = "up"
  /\ \E readable \in Readable :
       LET files == Restrict(open, readable)
       IN /\ failures' = IF readable = DOMAIN open THEN failures ELSE failures + 1
          /\ \E zones \in SUBSET Recovered(files) :
               /\ \A z \in Recovered(files) \ zones : ~IsLate(Found(z, files))
               /\ memory' = [z \in Zone |-> IF z \in Recovered(files) \ zones
                                            THEN Found(z, files) ELSE NoBasket]
               /\ late' = late \cup {Newest(z, files) : z \in zones}
               /\ HandOver(SetToSeq({Completed(Found(z, files)) : z \in zones}))
  /\ UNCHANGED <<seen, thread, open, done, day>>

NextDay ==
  /\ day < MaxDay
  /\ day' = day + 1
  /\ UNCHANGED <<memory, seen, jobs, thread, open, done, phase, lives, late, handed, failures>>

-----------------------------------------------------------------------------

Change == \/ \E z \in Zone : AddTrigger(z) \/ FinalizeSession(z)
          \/ FinalizeTimedOut \/ FinalizeGlobalSession

Save(t) == Take(t) \/ Unlink(t) \/ Write(t) \/ GiveUp(t)

Next == \/ Change
        \/ \E t \in Thread : Save(t)
        \/ BeginShutdown \/ ClearAll \/ Exit \/ Crash \/ Start \/ NextDay

Spec == Init /\ [][Next]_vars

\* The threads run; nobody has to stop, start or use the service.
FairSpec == Spec /\ \A t \in Thread : WF_vars(Save(t))

-----------------------------------------------------------------------------

TypeOK ==
  /\ memory \in [Zone -> [basket : Basket, last : 1..MaxTriggers] \cup {NoBasket}]
  /\ seen \in 0..MaxTriggers
  /\ Range(jobs) \subseteq Copy
  /\ \A t \in Thread :
       thread[t] \in [step : {"unlink", "write"}, copy : Copy] \cup {Idle}
  /\ DOMAIN open \cup DOMAIN done \cup late \subseteq Basket
  /\ phase \in {"up", "draining", "clearing", "down"}
  /\ day \in 0..MaxDay /\ lives \in 1..MaxLives /\ failures \in 0..MaxFailures
  /\ handed \subseteq Copy

\* Some copy of the basket of z is still on its way to the disk.
Unsaved(z) ==
  \/ \E c \in Range(jobs) : c.basket = memory[z].basket
  \/ \E t \in Thread : thread[t] # Idle /\ thread[t].copy.basket = memory[z].basket

\* While no file operation has failed, a basket whose saves are done is the one
\* a crash now would bring back: of the files of its zone in active/, those two
\* threads and earlier crashes left behind among them, its own has the latest
\* last_trigger_at (yaml_persistence.py:211-226), even where a late write has
\* put an old copy over it.
OpenIsRecoverable ==
  failures = 0 =>
    \A z \in Open(Zone) :
      \/ Unsaved(z)
      \/ memory[z].basket \in DOMAIN open /\ Newest(z, open) = memory[z].basket

\* After a stop in good order every basket of the first process is among the
\* completed files with all the triggers it ever held.
StopKeepsAll ==
  failures = 0 /\ phase = "down" /\ lives = 1 =>
    \A c \in handed :
      \/ day - c.basket.day > KeepDays
      \/ c.basket \in DOMAIN done /\ done[c.basket] >= c.last

\* Again and again every basket finalized since the last crash is in completed/,
\* unless a file operation failed or the basket is past the retention.
ClosedIsRecorded ==
  []<>(failures = 0 =>
         \A c \in handed :
           c.status = "complete" =>
             c.basket \in DOMAIN done \/ day - c.basket.day > KeepDays)
=============================================================================
