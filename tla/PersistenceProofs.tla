-------------------------- MODULE PersistenceProofs --------------------------
(***************************************************************************)
(* Proofs about the persistence of baskets: what is open is what a crash   *)
(* would bring back, and a stop in good order loses nothing.               *)
(***************************************************************************)
EXTENDS SessionPersistence, FoldProofs, SequenceTheorems

-----------------------------------------------------------------------------
(* The invariants. *)

Held == {thread[t].copy : t \in {u \in Thread : thread[u] # Idle}}

\* Copies on their way to the disk.
Pending == Range(jobs) \cup Held

\* Active copies on their way, and those in active/.
Stored == {CopyOf(b, open[b], "active") : b \in DOMAIN open}
Sources == Stored \cup {c \in Pending : c.status = "active"}

OpenBasket == [basket : Basket, last : 1..MaxTriggers]
Busy == [step : {"unlink", "write"}, copy : Copy]

TypeInv ==
  /\ TypeOK
  /\ jobs \in Seq(Copy)
  /\ thread \in [Thread -> Busy \cup {Idle}]
  /\ open \in [DOMAIN open -> 1..MaxTriggers]
  /\ done \in [DOMAIN done -> 1..MaxTriggers]

\* A basket is of the zone it is kept for, and no basket is ahead of the count.
Homes ==
  /\ \A z \in Open(Zone) : memory[z].basket.zone = z /\ memory[z].basket.time <= seen
  /\ \A c \in handed : c.basket.time <= seen
  /\ \A b \in DOMAIN open : b.time <= seen

\* What a copy holds are triggers from the basket's first on.
Span(b, last) == b.time <= last /\ last <= seen

Spans ==
  /\ \A z \in Open(Zone) : Span(memory[z].basket, memory[z].last)
  /\ \A c \in Sources : Span(c.basket, c.last)

Before(c, b) == c.last < b.time

\* While no file operation failed, copies of two baskets of a zone do not
\* overlap, and those of other baskets end before the open one begins.
BasketsApart ==
  failures = 0 =>
    /\ \A c, d \in Sources :
         c.basket.zone = d.basket.zone /\ c.basket # d.basket =>
           Before(c, d.basket) \/ Before(d, c.basket)
    /\ \A z \in Open(Zone), c \in Sources :
         c.basket.zone = z /\ c.basket # memory[z].basket => Before(c, memory[z].basket)

\* What is on its way was handed over, and only completed copies unlink.
Errands ==
  /\ Pending \subseteq handed
  /\ \A t \in Thread : thread[t].step = "unlink" => thread[t].copy.status = "complete"

\* Nothing is open, then nothing is left to save, as the process stops.
Stopping ==
  /\ phase \in {"clearing", "down"} => Open(Zone) = {}
  /\ phase = "down" => AtRest

\* No save on its way removes the file of an open basket, and that file is
\* there or its copy is on its way.
OnDisk ==
  \A z \in Open(Zone) :
    /\ \A c \in Pending : c.basket = memory[z].basket => c.status = "active"
    /\ failures = 0 => \/ memory[z].basket \in DOMAIN open
                       \/ \E c \in Pending : c.basket = memory[z].basket

\* A basket that is open has not been completed, and no copy of it holds more.
CopiesOfOpen ==
  \A z \in Open(Zone), c \in handed :
    c.basket = memory[z].basket => c.status = "active" /\ c.last <= memory[z].last

\* The completed copy of a basket holds all of it.
CompleteIsWhole ==
  \A c, d \in handed : c.status = "complete" /\ c.basket = d.basket => d.last <= c.last

\* What is in completed/ is a completed copy.
DoneWasHanded == \A b \in DOMAIN done : CopyOf(b, done[b], "complete") \in handed

\* Every basket ever saved is open or was completed.
OpenOrComplete ==
  \A c \in handed :
    \/ \E z \in Open(Zone) : memory[z].basket = c.basket
    \/ \E d \in handed : d.basket = c.basket /\ d.status = "complete"

\* Every completed copy is on its way, in completed/ or past the retention.
CompleteArrives ==
  \A c \in handed :
    c.status = "complete" =>
      c \in Pending \/ c.basket \in DOMAIN done \/ day - c.basket.day > KeepDays

\* The first process, until it crashes or an operation fails.
Unbroken == failures = 0 /\ lives = 1 /\ (phase = "down" => handed # {})

FirstLife ==
  Unbroken =>
    CopiesOfOpen /\ CompleteIsWhole /\ OpenOrComplete /\ CompleteArrives /\ DoneWasHanded

DiskInv ==
  TypeInv /\ Homes /\ Errands /\ Stopping /\ OnDisk /\ FirstLife /\ Spans /\ BasketsApart

-----------------------------------------------------------------------------
(* Sequences of copies and of files. *)

\* The order a finite set is handed over in leaves nothing out.
LEMMA InSomeOrder ==
  ASSUME NEW S, IsFiniteSet(S)
  PROVE  SetToSeq(S) \in Seq(S) /\ Range(SetToSeq(S)) = S
<1> DEFINE n == Cardinality(S)
           f == SetToSeq(S)
<1>1. n \in Nat /\ ExistsBijection(1..n, S)
  BY FS_CardinalityType
<1>2. \E g \in [1..n -> S] : IsInjective(g)
  BY <1>1 DEF ExistsBijection, Bijection, Injection, IsInjective
<1>3. f \in [1..n -> S] /\ IsInjective(f)
  BY <1>2 DEF SetToSeq
<1> HIDE DEF f
<1>4. f \in Injection(1..n, S)
  BY <1>3 DEF Injection, IsInjective
<1>5. IsFiniteSet(1..n) /\ Cardinality(1..n) = n
  BY <1>1, FS_Interval
<1>6. f \in Surjection(1..n, S)
  BY <1>4, <1>5, FS_Injection
<1>7. Range(f) = S
  BY <1>3, <1>6 DEF Surjection, Range
<1>8. f \in Seq(S)
  BY <1>1, <1>3 DEF n
<1> QED BY <1>7, <1>8 DEF f

LEMMA NoneInIt == <<>> \in Seq(Copy) /\ Range(<<>>) = {}
<1>1. <<>> \in Seq(Copy) /\ Len(<<>>) = 0
  BY EmptySeq
<1>2. DOMAIN <<>> = {}
  BY <1>1, LenProperties
<1> QED BY <1>1, <1>2 DEF Range

\* The oldest save goes, the others stay.
LEMMA HeadAndRest ==
  ASSUME jobs \in Seq(Copy), jobs # <<>>
  PROVE  /\ Tail(jobs) \in Seq(Copy)
         /\ Head(jobs) \in Copy
         /\ Range(jobs) = {Head(jobs)} \cup Range(Tail(jobs))
<1>1. Len(jobs) \in Nat /\ Len(jobs) # 0 /\ DOMAIN jobs = 1..Len(jobs)
  BY LenProperties
<1>2. /\ Tail(jobs) \in Seq(Copy)
      /\ Len(Tail(jobs)) = Len(jobs) - 1
      /\ \A i \in 1..Len(Tail(jobs)) : Tail(jobs)[i] = jobs[i + 1]
      /\ Head(jobs) = jobs[1] /\ Head(jobs) \in Copy
  BY HeadTailProperties DEF Head
<1>3. Range(Tail(jobs)) = {Tail(jobs)[i] : i \in 1..Len(Tail(jobs))}
  BY <1>2, RangeEquality
<1>4. Range(jobs) = {jobs[i] : i \in 1..Len(jobs)}
  BY RangeEquality
<1>5. \A i \in 1..Len(jobs) : i = 1 \/ (i - 1 \in 1..Len(Tail(jobs)) /\ Tail(jobs)[i - 1] = jobs[i])
  BY <1>1, <1>2
<1>6. \A i \in 1..Len(Tail(jobs)) : i + 1 \in 1..Len(jobs)
  BY <1>1, <1>2
<1>7. 1 \in 1..Len(jobs)
  BY <1>1
<1>8. Range(jobs) \subseteq {Head(jobs)} \cup Range(Tail(jobs))
  <2>1. SUFFICES ASSUME NEW i \in 1..Len(jobs)
                 PROVE  jobs[i] \in {Head(jobs)} \cup Range(Tail(jobs))
    BY <1>4
  <2> QED BY <1>2, <1>3, <1>5
<1>9. Range(Tail(jobs)) \subseteq Range(jobs)
  <2>1. SUFFICES ASSUME NEW i \in 1..Len(Tail(jobs))
                 PROVE  Tail(jobs)[i] \in Range(jobs)
    BY <1>3
  <2> QED BY <1>2, <1>4, <1>6
<1>10. Head(jobs) \in Range(jobs)
  BY <1>2, <1>4, <1>7
<1> QED BY <1>2, <1>8, <1>9, <1>10

\* What is handed over is on its way with what was.
LEMMA HandedOver ==
  ASSUME TypeInv, NEW copies \in Seq(Copy), HandOver(copies), UNCHANGED thread
  PROVE  /\ jobs' \in Seq(Copy)
         /\ Pending' = Pending \cup Range(copies)
         /\ handed' = handed \cup Range(copies)
         /\ Range(copies) \subseteq Copy
<1>1. jobs \in Seq(Copy)
  BY DEF TypeInv
<1>2. jobs' \in Seq(Copy) /\ Range(jobs') = Range(jobs) \cup Range(copies)
  BY <1>1, ConcatProperties, RangeConcatenation DEF HandOver
<1>3. Held' = Held
  BY DEF Held
<1>4. Range(copies) \subseteq Copy
  BY RangeOfSeq
<1> QED BY <1>2, <1>3, <1>4 DEF Pending, HandOver

LEMMA OpenIs ==
  ASSUME TypeInv, NEW z \in Zone
  PROVE  /\ z \in Open(Zone) => memory[z] \in OpenBasket
         /\ z \notin Open(Zone) => memory[z] = NoBasket
         /\ Completed(memory[z]).status = "complete"
  BY DEF TypeInv, TypeOK, Open, OpenBasket, Completed, CopyOf

LEMMA OpenIsNot ==
  ASSUME NEW m \in OpenBasket
  PROVE  m # NoBasket
<1>1. m.last # 0
  BY PersistenceAssumption DEF OpenBasket
<1>2. NoBasket.last = 0
  BY DEF NoBasket
<1> QED BY <1>1, <1>2

\* Baskets that are closed are handed over complete, each once.
LEMMA Closed ==
  ASSUME TypeInv, NEW zones \in SUBSET Open(Zone), HandOver(Closing(zones)),
         memory' = Dropped(zones), UNCHANGED thread
  PROVE  /\ jobs' \in Seq(Copy)
         /\ Pending' = Pending \cup {Completed(memory[z]) : z \in zones}
         /\ handed' = handed \cup {Completed(memory[z]) : z \in zones}
         /\ \A z \in zones : Completed(memory[z]) \in Copy
         /\ memory' \in [Zone -> OpenBasket \cup {NoBasket}]
         /\ Open(Zone)' = Open(Zone) \ zones
         /\ \A z \in Open(Zone)' : memory'[z] = memory[z]
<1> DEFINE C == {Completed(memory[z]) : z \in zones}
<1>1. zones \subseteq Zone /\ \A z \in zones : memory[z] \in OpenBasket
  BY OpenIs DEF Open
<1>2. C \subseteq Copy
  BY <1>1 DEF Completed, CopyOf, Copy, OpenBasket
<1>3. IsFiniteSet(C)
  <2>1. IsFiniteSet(zones)
    BY <1>1, FS_Subset, PersistenceAssumption
  <2> DEFINE f == [z \in zones |-> Completed(memory[z])]
  <2>2. f \in Surjection(zones, C)
    BY DEF Surjection
  <2> HIDE DEF f, C
  <2> QED BY <2>1, <2>2, FS_Surjection
<1> HIDE DEF C
<1>4. SetToSeq(C) \in Seq(C) /\ Range(SetToSeq(C)) = C
  BY <1>3, InSomeOrder
<1>5. SetToSeq(C) \in Seq(Copy)
  BY <1>2, <1>4, SeqMonotonic
<1>6. Closing(zones) = SetToSeq(C)
  BY DEF Closing, C
<1>7. jobs' \in Seq(Copy) /\ Pending' = Pending \cup C /\ handed' = handed \cup C
  BY <1>4, <1>5, <1>6, HandedOver
<1>8. memory' \in [Zone -> OpenBasket \cup {NoBasket}]
  BY <1>1, OpenIs DEF Dropped
<1>9. Open(Zone)' = Open(Zone) \ zones
  BY <1>1 DEF Dropped, Open
<1>10. \A z \in Open(Zone)' : memory'[z] = memory[z]
  BY <1>9, <1>1 DEF Dropped, Open
<1>11. \A z \in zones : Completed(memory[z]) \in Copy
  BY <1>2 DEF C
<1> QED BY <1>7, <1>8, <1>9, <1>10, <1>11 DEF C

\* A trigger adds one or two copies.
Adds(z, replace, b, n) ==
  LET old == IF replace /\ memory[z] # NoBasket THEN {Completed(memory[z])} ELSE {}
  IN /\ memory' = [memory EXCEPT ![z] = [basket |-> b, last |-> n]]
     /\ Pending' = Pending \cup old \cup {CopyOf(b, n, "active")}
     /\ handed' = handed \cup old \cup {CopyOf(b, n, "active")}

LEMMA Added ==
  ASSUME TypeInv, NEW z \in Zone, AddTrigger(z)
  PROVE  /\ jobs' \in Seq(Copy)
         /\ late' \subseteq Basket
         /\ seen' = seen + 1 /\ seen < MaxTriggers
         /\ \E b \in Basket, n \in 1..MaxTriggers, replace \in BOOLEAN :
              /\ Adds(z, replace, b, n)
              /\ n = seen + 1
              /\ replace => b.zone = z /\ b.time = seen + 1
              /\ ~replace => z \in Open(Zone) /\ b = memory[z].basket
<1>1. PICK replace \in IF memory[z] = NoBasket THEN {TRUE} ELSE BOOLEAN :
        LET old == IF replace /\ memory[z] # NoBasket THEN {memory[z].basket} ELSE {}
            b   == IF replace THEN [zone |-> z, time |-> seen + 1, day |-> day]
                              ELSE memory[z].basket
        IN /\ memory' = [memory EXCEPT ![z] = [basket |-> b, last |-> seen + 1]]
           /\ late' = late \cup old
           /\ HandOver((IF old = {} THEN <<>> ELSE <<Completed(memory[z])>>)
                         \o <<CopyOf(b, seen + 1, "active")>>)
  BY DEF AddTrigger
<1> DEFINE old == IF replace /\ memory[z] # NoBasket THEN {memory[z].basket} ELSE {}
           b   == IF replace THEN [zone |-> z, time |-> seen + 1, day |-> day]
                             ELSE memory[z].basket
           n   == seen + 1
           gone == IF old = {} THEN <<>> ELSE <<Completed(memory[z])>>
           copies == gone \o <<CopyOf(b, n, "active")>>
<1>2. replace \in BOOLEAN /\ (~replace => z \in Open(Zone))
  BY <1>1 DEF Open
<1>3. z \in Open(Zone) => memory[z].basket \in Basket /\ memory[z].last \in 1..MaxTriggers
  BY OpenIs DEF OpenBasket
<1>4. seen \in 0..MaxTriggers /\ seen < MaxTriggers /\ seen' = seen + 1 /\ day \in 0..MaxDay
      /\ MaxTriggers \in Nat \ {0} /\ late \subseteq Basket
  BY PersistenceAssumption DEF TypeInv, TypeOK, AddTrigger
<1>5. b \in Basket
  BY <1>1, <1>2, <1>3, <1>4 DEF Basket
<1>6. n \in 1..MaxTriggers
  BY <1>1, <1>2, <1>3, <1>4
<1>7. old \subseteq Basket /\ (old # {} => z \in Open(Zone))
  BY <1>3 DEF Open
<1>8. z \in Open(Zone) => Completed(memory[z]) \in Copy
  BY <1>3 DEF Completed, CopyOf, Copy
<1>9. CopyOf(b, n, "active") \in Copy
  BY <1>5, <1>6 DEF CopyOf, Copy
<1>10. gone \in Seq(Copy) /\ Range(gone) = IF old = {} THEN {} ELSE {Completed(memory[z])}
  <2>1. CASE old = {}
    BY <2>1, NoneInIt
  <2>2. CASE old # {}
    BY <2>2, <1>7, <1>8 DEF Range
  <2> QED BY <2>1, <2>2
<1>11. <<CopyOf(b, n, "active")>> \in Seq(Copy)
       /\ Range(<<CopyOf(b, n, "active")>>) = {CopyOf(b, n, "active")}
  BY <1>9 DEF Range
<1>12. HandOver(copies) /\ UNCHANGED thread
  BY <1>1 DEF AddTrigger
<1>13. /\ memory' = [memory EXCEPT ![z] = [basket |-> b, last |-> n]]
       /\ late' = late \cup old
  BY <1>1
<1>14. old = {} <=> ~ (replace /\ memory[z] # NoBasket)
  OBVIOUS
<1>15. /\ n = seen + 1
       /\ replace => b.zone = z /\ b.time = seen + 1
       /\ ~replace => z \in Open(Zone) /\ b = memory[z].basket
  BY <1>2
<1> DEFINE one == <<CopyOf(b, n, "active")>>
<1> HIDE DEF b, n, gone, old, one
<1>16. copies \in Seq(Copy) /\ Range(copies) = Range(gone) \cup {CopyOf(b, n, "active")}
  <2>1. gone \in Seq(Copy) /\ one \in Seq(Copy) /\ Range(one) = {CopyOf(b, n, "active")}
    BY <1>10, <1>11 DEF one
  <2>2. gone \o one \in Seq(Copy) /\ Range(gone \o one) = Range(gone) \cup Range(one)
    BY <2>1, ConcatProperties, RangeConcatenation
  <2> QED BY <2>1, <2>2 DEF one
<1> HIDE DEF copies
<1>17. /\ jobs' \in Seq(Copy)
       /\ Pending' = Pending \cup Range(copies)
       /\ handed' = handed \cup Range(copies)
  BY <1>12, <1>16, HandedOver
<1>18. Adds(z, replace, b, n)
  BY <1>10, <1>13, <1>14, <1>16, <1>17 DEF Adds
<1> QED BY <1>2, <1>4, <1>5, <1>6, <1>7, <1>13, <1>15, <1>17, <1>18

\* The newest file of a zone is there: the triggers are finitely many.
LEMMA NewestIs ==
  ASSUME NEW files, DOMAIN files \subseteq Basket,
         \A b \in DOMAIN files : files[b] \in 1..MaxTriggers,
         NEW z, FilesOf(z, files) # {}
  PROVE  /\ Newest(z, files) \in FilesOf(z, files)
         /\ \A c \in FilesOf(z, files) : files[Newest(z, files)] >= files[c]
<1> DEFINE T == {files[c] : c \in FilesOf(z, files)}
           f == [x \in T |-> x]
<1>1. FilesOf(z, files) \subseteq DOMAIN files
  BY DEF FilesOf
<1>2. T # {} /\ T \subseteq 1..MaxTriggers
  BY <1>1
<1>3. MaxTriggers \in Nat
  BY PersistenceAssumption
<1>4. IsFiniteSet(T)
  <2>1. IsFiniteSet(1..MaxTriggers)
    BY <1>3, FS_Interval
  <2> HIDE DEF T
  <2> QED BY <1>2, <2>1, FS_Subset
<1>5. \A x \in T : f[x] = x /\ f[x] \in Int
  BY <1>2, <1>3
<1> HIDE DEF f
<1>6. PICK m \in T : \A x \in T : f[x] <= f[m]
  <2> HIDE DEF T
  <2> QED BY <1>2, <1>4, <1>5, Topmost
<1>7. \A x \in T : m >= x
  BY <1>2, <1>3, <1>5, <1>6
<1>8. PICK b \in FilesOf(z, files) : files[b] = m
  BY <1>6
<1>9. \A c \in FilesOf(z, files) : files[b] >= files[c]
  BY <1>7, <1>8
<1> QED BY <1>9 DEF Newest

\* A start takes up the newest basket it can read of some zones and completes
\* that of the others.
LEMMA Started ==
  ASSUME TypeInv, Start
  PROVE  /\ jobs' \in Seq(Copy)
         /\ memory' \in [Zone -> OpenBasket \cup {NoBasket}]
         /\ late' \subseteq Basket /\ failures' \in 0..MaxFailures
         /\ \E files, zones :
              /\ DOMAIN files \subseteq DOMAIN open
              /\ \A b \in DOMAIN files : files[b] = open[b]
              /\ failures' = 0 => failures = 0 /\ DOMAIN files = DOMAIN open
              /\ zones \subseteq Zone
              /\ \A z \in zones : /\ Newest(z, files) \in FilesOf(z, files)
                                  /\ Completed(Found(z, files)) \in Copy
              /\ Pending' = Pending \cup {Completed(Found(z, files)) : z \in zones}
              /\ handed' = handed \cup {Completed(Found(z, files)) : z \in zones}
              /\ zones \cap Open(Zone)' = {}
              /\ \A z \in Open(Zone)' :
                   /\ memory'[z] = Found(z, files)
                   /\ Newest(z, files) \in FilesOf(z, files)
                   /\ \A c \in FilesOf(z, files) : files[Newest(z, files)] >= files[c]
<1>1. PICK readable \in Readable :
        LET files == Restrict(open, readable)
        IN /\ failures' = IF readable = DOMAIN open THEN failures ELSE failures + 1
           /\ \E zones \in SUBSET Recovered(files) :
                /\ \A z \in Recovered(files) \ zones : ~IsLate(Found(z, files))
                /\ memory' = [z \in Zone |-> IF z \in Recovered(files) \ zones
                                             THEN Found(z, files) ELSE NoBasket]
                /\ late' = late \cup {Newest(z, files) : z \in zones}
                /\ HandOver(SetToSeq({Completed(Found(z, files)) : z \in zones}))
  BY DEF Start
<1> DEFINE files == Restrict(open, readable)
<1>2. readable \subseteq DOMAIN open /\ (readable # DOMAIN open => MayFail)
  BY DEF Readable
<1>3. DOMAIN files = readable /\ \A b \in DOMAIN files : files[b] = open[b]
  BY <1>2 DEF Restrict
<1>4. /\ failures' \in 0..MaxFailures
      /\ failures' = 0 => failures = 0 /\ DOMAIN files = DOMAIN open
  <2>1. failures \in 0..MaxFailures /\ MaxFailures \in Nat
    BY PersistenceAssumption DEF TypeInv, TypeOK
  <2>2. failures' = IF readable = DOMAIN open THEN failures ELSE failures + 1
    BY <1>1
  <2> QED BY <1>2, <1>3, <2>1, <2>2 DEF MayFail
<1> HIDE DEF files
<1>5. PICK zones \in SUBSET Recovered(files) :
        /\ memory' = [z \in Zone |-> IF z \in Recovered(files) \ zones
                                     THEN Found(z, files) ELSE NoBasket]
        /\ late' = late \cup {Newest(z, files) : z \in zones}
        /\ HandOver(SetToSeq({Completed(Found(z, files)) : z \in zones}))
  BY <1>1 DEF files
<1>6. /\ DOMAIN files \subseteq Basket
      /\ \A b \in DOMAIN files : files[b] \in 1..MaxTriggers
  BY <1>2, <1>3 DEF TypeInv, TypeOK
<1>7. \A z \in Recovered(files) :
        /\ z \in Zone /\ Newest(z, files) \in FilesOf(z, files)
        /\ \A c \in FilesOf(z, files) : files[Newest(z, files)] >= files[c]
  BY <1>6, NewestIs DEF Recovered
<1>8. \A z \in Recovered(files) : Found(z, files) \in OpenBasket
  BY <1>6, <1>7 DEF Found, OpenBasket, FilesOf
<1> DEFINE C == {Completed(Found(z, files)) : z \in zones}
<1>9. \A z \in Recovered(files) : Completed(Found(z, files)) \in Copy
  BY <1>8 DEF Completed, CopyOf, Copy, OpenBasket
<1>10. C \subseteq Copy
  BY <1>9
<1>11. IsFiniteSet(C)
  <2>1. IsFiniteSet(zones)
    BY <1>5, <1>7, FS_Subset, PersistenceAssumption
  <2> DEFINE f == [z \in zones |-> Completed(Found(z, files))]
  <2>2. f \in Surjection(zones, C)
    BY DEF Surjection
  <2> HIDE DEF f, C
  <2> QED BY <2>1, <2>2, FS_Surjection
<1>12. HandOver(SetToSeq(C)) /\ UNCHANGED thread
  BY <1>5 DEF Start
<1> HIDE DEF C
<1>13. SetToSeq(C) \in Seq(Copy) /\ Range(SetToSeq(C)) = C
  BY <1>10, <1>11, InSomeOrder, SeqMonotonic
<1>14. jobs' \in Seq(Copy) /\ Pending' = Pending \cup C /\ handed' = handed \cup C
  BY <1>12, <1>13, HandedOver
<1>15. memory' \in [Zone -> OpenBasket \cup {NoBasket}]
  BY <1>5, <1>8
<1>16. Open(Zone)' \subseteq Recovered(files) \ zones
  BY <1>5 DEF Open
<1>17. \A z \in Open(Zone)' : z \in Recovered(files) /\ memory'[z] = Found(z, files)
  BY <1>5, <1>7, <1>16
<1>18. late' \subseteq Basket
  BY <1>5, <1>6, <1>7 DEF TypeInv, TypeOK, FilesOf
<1>19. zones \subseteq Zone /\ zones \cap Open(Zone)' = {}
  BY <1>5, <1>7, <1>16
<1> QED BY <1>2, <1>3, <1>4, <1>5, <1>7, <1>9, <1>14, <1>15, <1>17, <1>18, <1>19 DEF C

\* What a thread does moves copies along or drops its own.
LEMMA Taken ==
  ASSUME TypeInv, NEW t \in Thread, Take(t)
  PROVE  /\ jobs' \in Seq(Copy)
         /\ thread' \in [Thread -> Busy \cup {Idle}]
         /\ Pending' = Pending
         /\ \A u \in Thread \ {t} : thread'[u] = thread[u]
         /\ thread'[t].step = "unlink" => thread'[t].copy.status = "complete"
<1> DEFINE c == Head(jobs)
<1>1. /\ jobs # <<>> /\ jobs' = Tail(jobs) /\ thread[t] = Idle
      /\ thread' = [thread EXCEPT ![t] =
                  [step |-> IF c.status = "active" THEN "write" ELSE "unlink", copy |-> c]]
  BY DEF Take
<1>2. /\ jobs' \in Seq(Copy) /\ c \in Copy
      /\ Range(jobs) = {c} \cup Range(jobs')
  BY <1>1, HeadAndRest DEF TypeInv
<1> HIDE DEF c
<1>3. thread' \in [Thread -> Busy \cup {Idle}]
  BY <1>1, <1>2 DEF TypeInv, Busy
<1>4. thread'[t] # Idle /\ thread'[t].copy = c
      /\ \A u \in Thread \ {t} : thread'[u] = thread[u]
  BY <1>1 DEF Idle, TypeInv
<1>5. Held' = Held \cup {c}
  BY <1>1, <1>4 DEF Held
<1>6. thread'[t].step = "unlink" => c.status = "complete"
  BY <1>1, <1>2 DEF TypeInv, Copy
<1> QED BY <1>2, <1>3, <1>4, <1>5, <1>6 DEF Pending

LEMMA Finished ==
  ASSUME TypeInv, NEW t \in Thread, thread[t] # Idle,
         thread' = [thread EXCEPT ![t] = Idle], UNCHANGED jobs
  PROVE  /\ thread' \in [Thread -> Busy \cup {Idle}]
         /\ thread[t] \in Busy
         /\ thread[t].copy \in Pending
         /\ Pending' \subseteq Pending
         /\ \A c \in Pending : c = thread[t].copy \/ c \in Pending'
         /\ \A u \in Thread \ {t} : thread'[u] = thread[u]
         /\ thread'[t] = Idle
<1>1. thread' \in [Thread -> Busy \cup {Idle}] /\ thread[t] \in Busy /\ thread'[t] = Idle
      /\ \A u \in Thread \ {t} : thread'[u] = thread[u]
  BY DEF TypeInv
<1>2. thread[t].copy \in Held
  BY DEF Held
<1>3. Held' \subseteq Held
  BY <1>1 DEF Held
<1>4. \A c \in Held : c = thread[t].copy \/ c \in Held'
  BY <1>1 DEF Held
<1> QED BY <1>1, <1>2, <1>3, <1>4 DEF Pending

LEMMA Unlinked ==
  ASSUME TypeInv, NEW t \in Thread, Unlink(t)
  PROVE  /\ thread' \in [Thread -> Busy \cup {Idle}]
         /\ thread[t] \in Busy
         /\ thread[t].copy \in Pending
         /\ Pending' = Pending
         /\ \A u \in Thread \ {t} : thread'[u] = thread[u]
         /\ thread'[t].step = "write"
         /\ open' \in [DOMAIN open' -> 1..MaxTriggers]
         /\ DOMAIN open' \subseteq DOMAIN open
         /\ DOMAIN open \subseteq DOMAIN open' \cup {thread[t].copy.basket}
         /\ \A b \in DOMAIN open' : open'[b] = open[b]
         /\ failures' \in 0..MaxFailures /\ (failures' = 0 => failures = 0)
<1>1. thread[t].step = "unlink" /\ thread' = [thread EXCEPT ![t].step = "write"]
      /\ UNCHANGED jobs
  BY DEF Unlink
<1>2. thread[t] \in Busy
  BY <1>1 DEF TypeInv, Idle
<1>3. thread'[t] \in Busy /\ thread'[t].copy = thread[t].copy /\ thread'[t].step = "write"
      /\ \A u \in Thread \ {t} : thread'[u] = thread[u]
  BY <1>1, <1>2 DEF Busy, TypeInv
<1>4. thread' \in [Thread -> Busy \cup {Idle}]
  BY <1>1, <1>3 DEF TypeInv
<1>5. thread[t] # Idle /\ thread'[t] # Idle
  BY <1>1, <1>3 DEF Idle
<1>6. Held' = Held /\ thread[t].copy \in Held
  BY <1>3, <1>5 DEF Held
<1>7. \/ open' = Without(open, {thread[t].copy.basket}) /\ UNCHANGED failures
      \/ UNCHANGED open /\ failures' = failures + 1 /\ MayFail
  BY DEF Unlink
<1>8. /\ open' \in [DOMAIN open' -> 1..MaxTriggers]
      /\ DOMAIN open' \subseteq DOMAIN open
      /\ \A b \in DOMAIN open' : open'[b] = open[b]
      /\ DOMAIN open \subseteq DOMAIN open' \cup {thread[t].copy.basket}
  BY <1>7 DEF Without, Restrict, TypeInv
<1>9. failures' \in 0..MaxFailures /\ (failures' = 0 => failures = 0)
  BY <1>7, PersistenceAssumption DEF TypeInv, TypeOK, MayFail
<1> QED BY <1>1, <1>2, <1>3, <1>4, <1>6, <1>8, <1>9 DEF Pending

LEMMA Written ==
  ASSUME TypeInv, NEW t \in Thread, Write(t)
  PROVE  /\ thread[t] # Idle
         /\ thread' = [thread EXCEPT ![t] = Idle]
         /\ UNCHANGED jobs
         /\ open' \in [DOMAIN open' -> 1..MaxTriggers]
         /\ done' \in [DOMAIN done' -> 1..MaxTriggers]
         /\ thread[t].copy \in Copy
         /\ \/ /\ thread[t].copy.status = "active"
               /\ DOMAIN open' = DOMAIN open \cup {thread[t].copy.basket}
               /\ open' = Put(open, thread[t].copy.basket, thread[t].copy.last)
               /\ UNCHANGED done
            \/ /\ thread[t].copy.status = "complete"
               /\ UNCHANGED open
               /\ done' = Put(done, thread[t].copy.basket, thread[t].copy.last)
<1> DEFINE c == thread[t].copy
<1>1. thread[t].step = "write" /\ thread' = [thread EXCEPT ![t] = Idle] /\ UNCHANGED jobs
  BY DEF Write
<1>2. thread[t] \in Busy /\ thread[t] # Idle
  BY <1>1 DEF TypeInv, Idle
<1>3. c \in Copy
  BY <1>2 DEF Busy
<1>4. c.last \in 1..MaxTriggers /\ (c.status = "active" \/ c.status = "complete")
  BY <1>3 DEF Copy
<1>5. IF c.status = "active"
        THEN open' = Put(open, c.basket, c.last) /\ UNCHANGED done
        ELSE done' = Put(done, c.basket, c.last) /\ UNCHANGED open
  BY DEF Write
<1> HIDE DEF c
<1>6. CASE c.status = "active"
  <2>1. open' = Put(open, c.basket, c.last) /\ done' = done
    BY <1>5, <1>6
  <2>2. DOMAIN open' = DOMAIN open \cup {c.basket}
        /\ open' \in [DOMAIN open' -> 1..MaxTriggers]
    BY <1>4, <2>1 DEF Put, TypeInv
  <2> QED BY <1>1, <1>2, <1>3, <1>6, <2>1, <2>2 DEF TypeInv, c
<1>7. CASE c.status = "complete"
  <2>1. done' = Put(done, c.basket, c.last) /\ open' = open
    BY <1>5, <1>7
  <2>2. done' \in [DOMAIN done' -> 1..MaxTriggers]
    BY <1>4, <2>1 DEF Put, TypeInv
  <2> QED BY <1>1, <1>2, <1>3, <1>7, <2>1, <2>2 DEF TypeInv, c
<1> QED BY <1>4, <1>6, <1>7

LEMMA NothingPending ==
  ASSUME AtRest
  PROVE  Pending = {}
<1>1. Range(jobs) = {}
  BY NoneInIt DEF AtRest
<1>2. Held = {}
  BY DEF AtRest, Held
<1> QED BY <1>1, <1>2 DEF Pending

\* A crash, or the start of the next life, drops everything.
LEMMA RestIsTyped == <<>> \in Seq(Copy) /\ [t \in Thread |-> Idle] \in [Thread -> Busy \cup {Idle}]
  BY NoneInIt

-----------------------------------------------------------------------------
(* Type correctness. *)

LEMMA MemoryTyped ==
  ASSUME NEW m, m \in [Zone -> OpenBasket \cup {NoBasket}]
  PROVE  m \in [Zone -> [basket : Basket, last : 1..MaxTriggers] \cup {NoBasket}]
  BY DEF OpenBasket

LEMMA ThreadTyped ==
  ASSUME thread \in [Thread -> Busy \cup {Idle}], NEW t \in Thread
  PROVE  thread[t] \in [step : {"unlink", "write"}, copy : Copy] \cup {Idle}
  BY DEF Busy

LEMMA JobsTyped ==
  ASSUME jobs \in Seq(Copy)
  PROVE  Range(jobs) \subseteq Copy
  BY RangeOfSeq

LEMMA TypeFrom ==
  ASSUME memory \in [Zone -> OpenBasket \cup {NoBasket}],
         seen \in 0..MaxTriggers, jobs \in Seq(Copy),
         thread \in [Thread -> Busy \cup {Idle}],
         open \in [DOMAIN open -> 1..MaxTriggers], DOMAIN open \subseteq Basket,
         done \in [DOMAIN done -> 1..MaxTriggers], DOMAIN done \subseteq Basket,
         late \subseteq Basket, handed \subseteq Copy,
         phase \in {"up", "draining", "clearing", "down"},
         day \in 0..MaxDay, lives \in 1..MaxLives, failures \in 0..MaxFailures
  PROVE  TypeInv
  BY MemoryTyped, ThreadTyped, JobsTyped DEF TypeInv, TypeOK

LEMMA InitDisk == Init => DiskInv
<1> SUFFICES ASSUME Init PROVE DiskInv
  OBVIOUS
<1>1. /\ memory \in [Zone -> OpenBasket \cup {NoBasket}] /\ seen \in 0..MaxTriggers
      /\ late \subseteq Basket /\ handed \subseteq Copy
      /\ phase \in {"up", "draining", "clearing", "down"}
      /\ day \in 0..MaxDay /\ lives \in 1..MaxLives /\ failures \in 0..MaxFailures
  BY PersistenceAssumption DEF Init
<1>2. jobs \in Seq(Copy) /\ thread \in [Thread -> Busy \cup {Idle}]
  BY RestIsTyped DEF Init
<1>3. DOMAIN open = {} /\ DOMAIN done = {}
  BY EmptySeq, LenProperties, NoneInIt DEF Init
<1>4. open \in [DOMAIN open -> 1..MaxTriggers] /\ done \in [DOMAIN done -> 1..MaxTriggers]
  BY <1>3 DEF Init
<1>5. TypeInv
  BY <1>1, <1>2, <1>3, <1>4, TypeFrom
<1>6. AtRest /\ Open(Zone) = {} /\ handed = {} /\ phase = "up"
  BY DEF Init, AtRest, Open
<1>7. Pending = {}
  BY <1>6, NothingPending
<1>8. Homes /\ Errands /\ Stopping /\ OnDisk
  BY <1>3, <1>6, <1>7 DEF Homes, Errands, Stopping, OnDisk, AtRest, Idle
<1>9. FirstLife
  BY <1>3, <1>6
     DEF FirstLife, CopiesOfOpen, CompleteIsWhole, OpenOrComplete, CompleteArrives, DoneWasHanded
<1>10. Spans /\ BasketsApart
  BY <1>3, <1>6, <1>7 DEF Spans, BasketsApart, Sources, Stored
<1> QED BY <1>5, <1>8, <1>9, <1>10 DEF DiskInv

\* The actions that close baskets of zones.
Closes(zones) ==
  /\ zones \in SUBSET Open(Zone)
  /\ HandOver(Closing(zones)) /\ memory' = Dropped(zones)
  /\ late' \in {late, late \cup {memory[z].basket : z \in zones}}
  /\ UNCHANGED <<seen, thread, open, done, day, lives, failures>>
  /\ \/ phase = "up" /\ phase' = phase
     \/ phase = "draining" /\ AtRest /\ zones = Open(Zone) /\ phase' = "clearing"

LEMMA ClosesWhich ==
  ASSUME TypeInv,
         FinalizeTimedOut \/ FinalizeGlobalSession \/ ClearAll
           \/ \E z \in Zone : FinalizeSession(z)
  PROVE  \E zones : Closes(zones)
<1>1. CASE FinalizeTimedOut
  <2>1. PICK zones \in SUBSET Open(Zone) \ {{}} :
          FinalizeInMemory(zones) /\ late' = late \cup {memory[z].basket : z \in zones}
    BY <1>1 DEF FinalizeTimedOut
  <2>2. Closes(zones)
    BY <1>1, <2>1 DEF FinalizeTimedOut, FinalizeInMemory, HandOver, Closes
  <2> QED BY <2>2
<1>2. CASE FinalizeGlobalSession
  <2>1. Closes(Open(Zone))
    BY <1>2 DEF FinalizeGlobalSession, FinalizeInMemory, Closes
  <2> QED BY <2>1
<1>3. CASE ClearAll
  <2>1. Dropped(Zone) = Dropped(Open(Zone))
    BY OpenIs DEF Dropped
  <2>2. Closes(Open(Zone))
    BY <1>3, <2>1 DEF ClearAll, Closes
  <2> QED BY <2>2
<1>4. ASSUME NEW z \in Zone, FinalizeSession(z) PROVE \E zones : Closes(zones)
  <2>1. Closes({z})
    BY <1>4 DEF FinalizeSession, FinalizeInMemory, Closes
  <2> QED BY <2>1
<1> QED BY <1>1, <1>2, <1>3, <1>4

LEMMA TypeHere ==
  ASSUME TypeInv
  PROVE  /\ memory \in [Zone -> OpenBasket \cup {NoBasket}]
         /\ seen \in 0..MaxTriggers /\ jobs \in Seq(Copy)
         /\ thread \in [Thread -> Busy \cup {Idle}]
         /\ open \in [DOMAIN open -> 1..MaxTriggers] /\ DOMAIN open \subseteq Basket
         /\ done \in [DOMAIN done -> 1..MaxTriggers] /\ DOMAIN done \subseteq Basket
         /\ late \subseteq Basket /\ handed \subseteq Copy
         /\ phase \in {"up", "draining", "clearing", "down"}
         /\ day \in 0..MaxDay /\ lives \in 1..MaxLives /\ failures \in 0..MaxFailures
  BY DEF TypeInv, TypeOK, OpenBasket

Typed ==
  /\ memory \in [Zone -> OpenBasket \cup {NoBasket}]
  /\ seen \in 0..MaxTriggers /\ jobs \in Seq(Copy)
  /\ thread \in [Thread -> Busy \cup {Idle}]
  /\ open \in [DOMAIN open -> 1..MaxTriggers] /\ DOMAIN open \subseteq Basket
  /\ done \in [DOMAIN done -> 1..MaxTriggers] /\ DOMAIN done \subseteq Basket
  /\ late \subseteq Basket /\ handed \subseteq Copy
  /\ phase \in {"up", "draining", "clearing", "down"}
  /\ day \in 0..MaxDay /\ lives \in 1..MaxLives /\ failures \in 0..MaxFailures

LEMMA TypeIs == Typed <=> TypeInv
  BY TypeFrom, TypeHere DEF Typed

LEMMA TypeStep == TypeInv /\ [Next]_vars => TypeInv'
<1> SUFFICES ASSUME TypeInv, [Next]_vars PROVE Typed'
  BY TypeIs, PTL
<1>1. Typed
  BY TypeIs
<1>2. ASSUME NEW z \in Zone, AddTrigger(z) PROVE Typed'
  <2>1. PICK b \in Basket, n \in 1..MaxTriggers, replace \in BOOLEAN : Adds(z, replace, b, n)
    BY <1>2, Added
  <2>2. memory' = [memory EXCEPT ![z] = [basket |-> b, last |-> n]]
    BY <2>1 DEF Adds
  <2>3. memory' \in [Zone -> OpenBasket \cup {NoBasket}]
    BY <1>1, <2>2 DEF Typed, OpenBasket
  <2>4. seen' \in 0..MaxTriggers
    BY <1>1, <1>2, Added, PersistenceAssumption DEF Typed
  <2>5. handed' \subseteq Copy
    <3>1. CopyOf(b, n, "active") \in Copy
      BY DEF CopyOf, Copy
    <3>2. ASSUME memory[z] # NoBasket PROVE Completed(memory[z]) \in Copy
      BY <1>1, <3>2 DEF Typed, OpenBasket, Completed, CopyOf, Copy
    <3> QED BY <1>1, <2>1, <3>1, <3>2 DEF Adds, Typed
  <2>6. jobs' \in Seq(Copy) /\ late' \subseteq Basket
    BY <1>2, Added
  <2> QED BY <1>1, <1>2, <2>3, <2>4, <2>5, <2>6 DEF AddTrigger, Typed
<1>3. ASSUME NEW zones, Closes(zones) PROVE Typed'
  <2>1. /\ jobs' \in Seq(Copy)
        /\ handed' = handed \cup {Completed(memory[z]) : z \in zones}
        /\ \A z \in zones : Completed(memory[z]) \in Copy
        /\ memory' \in [Zone -> OpenBasket \cup {NoBasket}]
    BY <1>3, Closed DEF Closes
  <2>2. \A z \in zones : memory[z].basket \in Basket
    BY <1>3, OpenIs DEF Closes, Open, OpenBasket
  <2>3. late' \subseteq Basket
    BY <1>1, <1>3, <2>2 DEF Closes, Typed
  <2>4. phase' \in {"up", "draining", "clearing", "down"}
    BY <1>3 DEF Closes
  <2> QED BY <1>1, <1>3, <2>1, <2>3, <2>4 DEF Closes, Typed
<1>4. CASE FinalizeTimedOut \/ FinalizeGlobalSession \/ ClearAll
             \/ \E z \in Zone : FinalizeSession(z)
  BY <1>3, <1>4, ClosesWhich
<1>5. ASSUME NEW t \in Thread, Take(t) PROVE Typed'
  BY <1>1, <1>5, Taken DEF Take, Typed
<1>6. ASSUME NEW t \in Thread, Unlink(t) PROVE Typed'
  BY <1>1, <1>6, Unlinked DEF Unlink, Typed
<1>7. ASSUME NEW t \in Thread, Write(t) PROVE Typed'
  <2>1. thread' \in [Thread -> Busy \cup {Idle}] /\ thread[t].copy.basket \in Basket
    BY <1>7, Written, Finished DEF Copy
  <2>2. DOMAIN open' \subseteq Basket /\ DOMAIN done' \subseteq Basket
    <3>1. DOMAIN open \subseteq Basket /\ DOMAIN done \subseteq Basket
      BY <1>1 DEF Typed
    <3>2. DOMAIN open' = DOMAIN open \cup {thread[t].copy.basket} \/ open' = open
      BY <1>7, Written
    <3>3. done' = done \/ done' = Put(done, thread[t].copy.basket, thread[t].copy.last)
      BY <1>7, Written
    <3>4. DOMAIN done' \subseteq DOMAIN done \cup {thread[t].copy.basket}
      BY <3>3 DEF Put
    <3> QED BY <2>1, <3>1, <3>2, <3>4
  <2>3. /\ open' \in [DOMAIN open' -> 1..MaxTriggers]
        /\ done' \in [DOMAIN done' -> 1..MaxTriggers]
    BY <1>7, Written
  <2> QED BY <1>1, <1>7, <2>1, <2>2, <2>3 DEF Write, Typed
<1>8. ASSUME NEW t \in Thread, GiveUp(t) PROVE Typed'
  <2>1. failures' \in 0..MaxFailures
    BY <1>1, <1>8, PersistenceAssumption DEF GiveUp, MayFail, Typed
  <2> QED BY <1>1, <1>8, <2>1, Finished DEF GiveUp, Typed
<1>9. CASE BeginShutdown
  <2>1. done' \in [DOMAIN done' -> 1..MaxTriggers] /\ DOMAIN done' \subseteq DOMAIN done
    BY <1>1, <1>9 DEF BeginShutdown, Without, Restrict, Typed
  <2> QED BY <1>1, <1>9, <2>1 DEF BeginShutdown, Typed
<1>10. CASE Exit
  BY <1>1, <1>10 DEF Exit, Typed
<1>11. CASE Crash
  <2>1. memory' \in [Zone -> OpenBasket \cup {NoBasket}]
    BY <1>11 DEF Crash, Dropped
  <2>2. jobs' \in Seq(Copy) /\ thread' \in [Thread -> Busy \cup {Idle}]
    BY <1>11, RestIsTyped DEF Crash
  <2> QED BY <1>1, <1>11, <2>1, <2>2 DEF Crash, Typed
<1>12. CASE Start
  <2>1. lives' \in 1..MaxLives
    BY <1>1, <1>12, PersistenceAssumption DEF Start, Typed
  <2>2. handed' \subseteq Copy
    <3>1. PICK files, zones : /\ handed' = handed \cup {Completed(Found(z, files)) : z \in zones}
                              /\ \A z \in zones : Completed(Found(z, files)) \in Copy
      BY <1>12, Started
    <3> QED BY <1>1, <3>1 DEF Typed
  <2>3. /\ jobs' \in Seq(Copy) /\ late' \subseteq Basket /\ failures' \in 0..MaxFailures
        /\ memory' \in [Zone -> OpenBasket \cup {NoBasket}]
    BY <1>12, Started
  <2> QED BY <1>1, <1>12, <2>1, <2>2, <2>3 DEF Start, Typed
<1>13. CASE NextDay
  BY <1>1, <1>13, PersistenceAssumption DEF NextDay, Typed
<1>14. CASE UNCHANGED vars
  BY <1>1, <1>14 DEF vars, Typed
<1> QED BY <1>2, <1>4, <1>5, <1>6, <1>7, <1>8, <1>9, <1>10, <1>11, <1>12, <1>13, <1>14
        DEF Next, Change, Save

\* THEOREM: every reachable state is type correct: the sizes, the dates and
\* the copies stay within the bounds, whatever fails or dies.
THEOREM PersistenceTypeCorrect == Spec => []TypeOK
<1>1. Init => TypeInv
  BY InitDisk DEF DiskInv
<1>2. TypeInv => TypeOK
  BY DEF TypeInv
<1> QED BY <1>1, <1>2, TypeStep, PTL DEF Spec

-----------------------------------------------------------------------------
(* Steps and the disk. *)

LEMMA AddedWhere ==
  ASSUME TypeInv, NEW z \in Zone, NEW b \in Basket, NEW n \in 1..MaxTriggers,
         NEW replace \in BOOLEAN, Adds(z, replace, b, n)
  PROVE  /\ Open(Zone)' = Open(Zone) \cup {z}
         /\ memory'[z].basket = b /\ memory'[z].last = n
         /\ \A y \in Zone \ {z} : memory'[y] = memory[y]
<1>1. memory' = [memory EXCEPT ![z] = [basket |-> b, last |-> n]]
  BY DEF Adds
<1>2. [basket |-> b, last |-> n] \in OpenBasket
  BY DEF OpenBasket
<1>3. memory'[z] = [basket |-> b, last |-> n] /\ \A y \in Zone \ {z} : memory'[y] = memory[y]
  BY <1>1, TypeHere
<1>4. memory'[z] # NoBasket
  BY <1>2, <1>3, OpenIsNot
<1> QED BY <1>3, <1>4 DEF Open

LEMMA AddKeeps ==
  ASSUME DiskInv, NEW z \in Zone, AddTrigger(z)
  PROVE  Homes' /\ Errands' /\ OnDisk' /\ FirstLife'
<1>1. TypeInv
  BY DEF DiskInv
<1>2. PICK b \in Basket, n \in 1..MaxTriggers, replace \in BOOLEAN :
        /\ Adds(z, replace, b, n)
        /\ n = seen + 1 /\ seen' = seen + 1
        /\ replace => b.zone = z /\ b.time = seen + 1
        /\ ~replace => z \in Open(Zone) /\ b = memory[z].basket
  BY <1>1, Added
<1> DEFINE old == IF replace /\ memory[z] # NoBasket THEN {Completed(memory[z])} ELSE {}
           new == CopyOf(b, n, "active")
<1>3. /\ Pending' = Pending \cup old \cup {new}
      /\ handed' = handed \cup old \cup {new}
  BY <1>2 DEF Adds
<1>4. /\ Open(Zone)' = Open(Zone) \cup {z}
      /\ memory'[z].basket = b /\ memory'[z].last = n
      /\ \A y \in Zone \ {z} : memory'[y] = memory[y]
  BY <1>1, <1>2, AddedWhere
<1>5. new.basket = b /\ new.last = n /\ new.status = "active"
  BY DEF CopyOf
<1>6. \A c \in old : /\ c.basket = memory[z].basket /\ c.last = memory[z].last
                     /\ c.status = "complete" /\ z \in Open(Zone) /\ replace
  BY DEF Completed, CopyOf, Open
<1>7. UNCHANGED <<thread, open, done, day, lives, failures, phase>> /\ phase = "up"
  BY DEF AddTrigger
<1>8. seen \in Nat /\ seen' \in Nat /\ seen <= seen' /\ Open(Zone) \subseteq Zone /\ handed \subseteq Copy
  BY <1>1, <1>2, PersistenceAssumption DEF TypeInv, TypeOK, Open
<1>9. /\ \A y \in Open(Zone) : memory[y].basket \in Basket /\ memory[y].last \in Nat
      /\ \A c \in handed : c.basket.time \in Nat /\ c.last \in Nat
      /\ \A y \in Open(Zone) : memory[y].basket.time \in Nat
  BY <1>1, <1>8, OpenIs, PersistenceAssumption DEF OpenBasket, Copy, Basket
<1>10. /\ \A y \in Open(Zone) : memory[y].basket.zone = y /\ memory[y].basket.time <= seen
       /\ \A c \in handed : c.basket.time <= seen
       /\ \A f \in DOMAIN open : f.time <= seen /\ f.time \in Nat
  BY <1>1, PersistenceAssumption DEF DiskInv, Homes, TypeInv, TypeOK, Basket
<1>11. Pending \subseteq handed /\ OnDisk
  BY DEF DiskInv, Errands
<1>12. b.zone = z /\ b.time <= seen'
  BY <1>2, <1>8, <1>9, <1>10
\* A new basket is none of those before.
<1>13. replace => /\ \A c \in handed : c.basket # b
                  /\ \A y \in Open(Zone) : memory[y].basket # b
  BY <1>2, <1>8, <1>9, <1>10
<1>14. \A y \in Open(Zone) \ {z} : memory[y].basket # b
  BY <1>10, <1>12
<1> HIDE DEF old, new
<1>15. Homes'
  <2>1. \A y \in Open(Zone)' : memory'[y].basket.zone = y /\ memory'[y].basket.time <= seen'
    BY <1>2, <1>4, <1>8, <1>9, <1>10, <1>12
  <2>2. \A c \in handed' : c.basket.time <= seen'
    <3> SUFFICES ASSUME NEW c \in handed' PROVE c.basket.time <= seen'
      OBVIOUS
    <3>1. CASE c \in handed
      BY <1>8, <1>9, <1>10, <3>1
    <3>2. CASE c \in old
      BY <1>6, <1>8, <1>9, <1>10, <3>2
    <3>3. CASE c = new
      BY <1>5, <1>12, <3>3
    <3> QED BY <1>3, <3>1, <3>2, <3>3
  <2>3. \A f \in DOMAIN open' : f.time <= seen'
    <3>1. DOMAIN open' = DOMAIN open
      BY <1>7
    <3> QED BY <1>8, <1>10, <3>1
  <2> QED BY <2>1, <2>2, <2>3 DEF Homes
<1>16. Errands'
  BY <1>3, <1>7, <1>11 DEF Errands, DiskInv
<1>17. \A y \in Open(Zone) : memory[y].last <= seen
  BY DEF DiskInv, Spans, Span
<1>18. OnDisk'
  <2> SUFFICES ASSUME NEW y \in Open(Zone)'
               PROVE  /\ \A c \in Pending' : c.basket = memory'[y].basket => c.status = "active"
                      /\ failures' = 0 => \/ memory'[y].basket \in DOMAIN open'
                                    \/ \E c \in Pending' : c.basket = memory'[y].basket
    BY DEF OnDisk
  <2>1. CASE y = z
    <3>1. \A c \in Pending : c.basket = b => c.status = "active"
      BY <1>2, <1>11, <1>13 DEF OnDisk
    <3>2. \A c \in old : c.basket # b
      BY <1>6, <1>13
    <3> QED BY <1>3, <1>4, <1>5, <2>1, <3>1, <3>2
  <2>2. CASE y # z
    <3>1. y \in Open(Zone) /\ memory'[y] = memory[y]
      BY <1>4, <1>8, <2>2
    <3>2. \A c \in old \cup {new} : c.basket # memory[y].basket
      BY <1>5, <1>6, <1>10, <1>14, <2>2, <3>1
    <3> QED BY <1>3, <1>7, <1>11, <3>1, <3>2 DEF OnDisk
  <2> QED BY <2>1, <2>2
<1>19. ASSUME Unbroken'
       PROVE  CopiesOfOpen' /\ CompleteIsWhole' /\ OpenOrComplete' /\ CompleteArrives'
              /\ DoneWasHanded'
  <2>1. CopiesOfOpen /\ CompleteIsWhole /\ OpenOrComplete /\ CompleteArrives /\ DoneWasHanded
    BY <1>7, <1>19 DEF DiskInv, FirstLife, Unbroken
  <2>2. \A c \in handed : c.basket = b => c.status = "active" /\ c.last <= n
    <3> SUFFICES ASSUME NEW c \in handed, c.basket = b
                 PROVE  c.status = "active" /\ c.last <= n
      OBVIOUS
    <3>1. ~replace /\ z \in Open(Zone) /\ b = memory[z].basket
      BY <1>2, <1>13
    <3>2. c.status = "active" /\ c.last <= memory[z].last
      BY <2>1, <3>1 DEF CopiesOfOpen
    <3>3. memory[z].last <= seen /\ memory[z].last \in Nat /\ c.last \in Nat
      BY <1>9, <1>17, <3>1
    <3> QED BY <1>2, <1>8, <3>2, <3>3
  <2>3. \A c \in old : /\ c.basket # b
                       /\ \A d \in handed : d.basket = c.basket => d.last <= c.last /\ d.status = "active"
    BY <1>6, <1>13, <2>1 DEF CopiesOfOpen
  <2>4. CopiesOfOpen'
    <3> SUFFICES ASSUME NEW y \in Open(Zone)', NEW c \in handed', c.basket = memory'[y].basket
                 PROVE  c.status = "active" /\ c.last <= memory'[y].last
      BY DEF CopiesOfOpen
    <3>1. CASE y = z
      BY <1>2, <1>3, <1>4, <1>5, <2>2, <2>3, <3>1
    <3>2. CASE y # z
      <4>1. y \in Open(Zone) /\ memory'[y] = memory[y]
        BY <1>4, <1>8, <3>2
      <4>2. c \in handed
        BY <1>3, <1>5, <1>6, <1>10, <1>14, <3>2, <4>1
      <4> QED BY <2>1, <4>1, <4>2 DEF CopiesOfOpen
    <3> QED BY <3>1, <3>2
  <2>5. CompleteIsWhole'
    <3> SUFFICES ASSUME NEW c \in handed', NEW d \in handed', c.status = "complete",
                        c.basket = d.basket
                 PROVE  d.last <= c.last
      BY DEF CompleteIsWhole
    <3>1. c \in handed \/ c \in old
      BY <1>3, <1>5
    <3>2. c.basket # b
      BY <2>2, <2>3, <3>1
    <3>3. d \in handed \/ d \in old
      BY <1>3, <1>5, <3>2
    <3>4. CASE c \in handed /\ d \in handed
      BY <2>1, <3>4 DEF CompleteIsWhole
    <3>5. CASE c \in old /\ d \in handed
      BY <2>3, <3>5
    <3>6. CASE c \in handed /\ d \in old
      BY <2>3, <3>6
    <3>7. CASE c \in old /\ d \in old
      BY <1>6, <1>9, <3>7
    <3> QED BY <3>1, <3>3, <3>4, <3>5, <3>6, <3>7
  <2>6. OpenOrComplete'
    <3> SUFFICES ASSUME NEW c \in handed'
                 PROVE  \/ \E y \in Open(Zone)' : memory'[y].basket = c.basket
                        \/ \E d \in handed' : d.basket = c.basket /\ d.status = "complete"
      BY DEF OpenOrComplete
    <3>1. CASE c = new
      BY <1>4, <1>5, <3>1
    <3>2. CASE c \in old
      BY <1>3, <1>6, <3>2
    <3>3. CASE c \in handed
      <4>1. CASE \E d \in handed : d.basket = c.basket /\ d.status = "complete"
        BY <1>3, <4>1
      <4>2. ASSUME NEW y \in Open(Zone), memory[y].basket = c.basket
            PROVE  \/ \E x \in Open(Zone)' : memory'[x].basket = c.basket
                   \/ \E d \in handed' : d.basket = c.basket /\ d.status = "complete"
        <5>1. CASE y # z
          BY <1>4, <1>8, <4>2, <5>1
        <5>2. CASE y = z /\ ~replace
          BY <1>2, <1>4, <4>2, <5>2
        <5>3. CASE y = z /\ replace
          <6>1. Completed(memory[z]) \in old
            BY <4>2, <5>3 DEF old, Open
          <6> QED BY <1>3, <1>6, <4>2, <5>3, <6>1
        <5> QED BY <5>1, <5>2, <5>3
      <4> QED BY <2>1, <3>3, <4>1, <4>2 DEF OpenOrComplete
    <3> QED BY <1>3, <3>1, <3>2, <3>3
  <2>7. CompleteArrives'
    BY <1>3, <1>5, <1>7, <2>1 DEF CompleteArrives
  <2>8. DoneWasHanded'
    BY <1>3, <1>7, <2>1 DEF DoneWasHanded
  <2> QED BY <2>4, <2>5, <2>6, <2>7, <2>8
<1> QED BY <1>15, <1>16, <1>18, <1>19 DEF FirstLife

LEMMA ClosesKeeps ==
  ASSUME DiskInv, NEW zones, Closes(zones)
  PROVE  Homes' /\ Errands' /\ OnDisk' /\ FirstLife'
<1>1. TypeInv
  BY DEF DiskInv
<1> DEFINE new == {Completed(memory[z]) : z \in zones}
<1>2. zones \subseteq Open(Zone) /\ Open(Zone) \subseteq Zone
      /\ UNCHANGED <<seen, thread, open, done, day, lives, failures>>
  BY DEF Closes, Open
<1>3. /\ Pending' = Pending \cup new
      /\ handed' = handed \cup new
      /\ Open(Zone)' = Open(Zone) \ zones
      /\ \A z \in Open(Zone)' : memory'[z] = memory[z]
  BY <1>1, Closed DEF Closes
<1>4. \A c \in new : \E z \in zones : /\ c.basket = memory[z].basket /\ c.last = memory[z].last
                                      /\ c.status = "complete"
  BY DEF Completed, CopyOf
<1>5. \A z \in zones : \E c \in new : c.basket = memory[z].basket /\ c.status = "complete"
  <2> SUFFICES ASSUME NEW z \in zones
               PROVE  \E c \in new : c.basket = memory[z].basket /\ c.status = "complete"
    OBVIOUS
  <2>1. Completed(memory[z]) \in new
    OBVIOUS
  <2>2. Completed(memory[z]).basket = memory[z].basket /\ Completed(memory[z]).status = "complete"
    BY DEF Completed, CopyOf
  <2> QED BY <2>1, <2>2
<1>6. \A y \in Open(Zone) : memory[y].last \in Nat
  BY <1>1, <1>2, OpenIs, PersistenceAssumption DEF OpenBasket
<1>7. /\ \A y \in Open(Zone) : memory[y].basket.zone = y /\ memory[y].basket.time <= seen
      /\ \A c \in handed : c.basket.time <= seen
      /\ \A f \in DOMAIN open : f.time <= seen
  BY DEF DiskInv, Homes
<1>8. Pending \subseteq handed /\ OnDisk
  BY DEF DiskInv, Errands
<1>9. \A c \in new : \A z \in Open(Zone) \ zones : c.basket # memory[z].basket
  BY <1>2, <1>4, <1>7
<1> HIDE DEF new
<1>10. Homes'
  <2>1. \A c \in new : c.basket.time <= seen
    BY <1>2, <1>4, <1>7
  <2> QED BY <1>2, <1>3, <1>7, <2>1 DEF Homes
<1>11. Errands'
  BY <1>2, <1>3, <1>8 DEF Errands, DiskInv
<1>12. Unbroken' => Unbroken
  BY <1>2 DEF Closes, Unbroken
<1>13. OnDisk'
  BY <1>2, <1>3, <1>8, <1>9 DEF OnDisk
<1>14. ASSUME Unbroken'
       PROVE  CopiesOfOpen' /\ CompleteIsWhole' /\ OpenOrComplete' /\ CompleteArrives'
              /\ DoneWasHanded'
  <2>1. CopiesOfOpen /\ CompleteIsWhole /\ OpenOrComplete /\ CompleteArrives /\ DoneWasHanded
    BY <1>12, <1>14 DEF DiskInv, FirstLife
  <2>2. CopiesOfOpen'
    BY <1>2, <1>3, <1>9, <2>1 DEF CopiesOfOpen
  <2>3. CompleteIsWhole'
    <3> SUFFICES ASSUME NEW c \in handed', NEW d \in handed', c.status = "complete",
                        c.basket = d.basket
                 PROVE  d.last <= c.last
      BY DEF CompleteIsWhole
    <3>1. CASE c \in handed /\ d \in handed
      BY <2>1, <3>1 DEF CompleteIsWhole
    <3>2. CASE c \in new /\ d \in handed
      BY <1>2, <1>4, <2>1, <3>2 DEF CopiesOfOpen
    <3>3. CASE c \in handed /\ d \in new
      BY <1>2, <1>4, <2>1, <3>3 DEF CopiesOfOpen
    <3>4. CASE c \in new /\ d \in new
      <4>1. PICK y \in zones : c.basket = memory[y].basket /\ c.last = memory[y].last
        BY <1>4, <3>4
      <4>2. PICK z \in zones : d.basket = memory[z].basket /\ d.last = memory[z].last
        BY <1>4, <3>4
      <4>3. y = z
        BY <1>2, <1>7, <4>1, <4>2
      <4> QED BY <1>2, <1>6, <4>1, <4>2, <4>3
    <3> QED BY <1>3, <3>1, <3>2, <3>3, <3>4
  <2>4. OpenOrComplete'
    <3> SUFFICES ASSUME NEW c \in handed'
                 PROVE  \/ \E y \in Open(Zone)' : memory'[y].basket = c.basket
                        \/ \E d \in handed' : d.basket = c.basket /\ d.status = "complete"
      BY DEF OpenOrComplete
    <3>1. CASE c \in new
      BY <1>3, <1>4, <3>1
    <3>2. CASE c \in handed
      <4>1. CASE \E d \in handed : d.basket = c.basket /\ d.status = "complete"
        BY <1>3, <4>1
      <4>2. ASSUME NEW y \in Open(Zone), memory[y].basket = c.basket
            PROVE  \/ \E x \in Open(Zone)' : memory'[x].basket = c.basket
                   \/ \E d \in handed' : d.basket = c.basket /\ d.status = "complete"
        <5>1. CASE y \notin zones
          BY <1>3, <4>2, <5>1
        <5>2. CASE y \in zones
          BY <1>3, <1>5, <4>2, <5>2
        <5> QED BY <5>1, <5>2
      <4> QED BY <2>1, <3>2, <4>1, <4>2 DEF OpenOrComplete
    <3> QED BY <1>3, <3>1, <3>2
  <2>5. CompleteArrives'
    BY <1>2, <1>3, <2>1 DEF CompleteArrives
  <2>6. DoneWasHanded'
    BY <1>2, <1>3, <2>1 DEF DoneWasHanded
  <2> QED BY <2>2, <2>3, <2>4, <2>5, <2>6
<1> QED BY <1>10, <1>11, <1>13, <1>14 DEF FirstLife

\* A thread saves while the process runs, and what failed stays failed.
LEMMA SavesGoOn ==
  ASSUME DiskInv, NEW t \in Thread, Save(t)
  PROVE  /\ ~AtRest
         /\ failures' = 0 => failures = 0
         /\ Unbroken' => Unbroken
<1>1. ~AtRest
  <2>1. CASE Take(t)
    BY <2>1 DEF Take, AtRest
  <2>2. CASE Unlink(t)
    BY <2>2 DEF Unlink, AtRest, Idle
  <2>3. CASE Write(t)
    BY <2>3 DEF Write, AtRest, Idle
  <2>4. CASE GiveUp(t)
    BY <2>4 DEF GiveUp, AtRest
  <2> QED BY <2>1, <2>2, <2>3, <2>4 DEF Save
<1>2. phase # "down" /\ phase' = phase /\ lives' = lives
  BY <1>1 DEF DiskInv, Stopping, Save, Take, Unlink, Write, GiveUp
<1>3. failures' = 0 => failures = 0
  <2>1. failures' = failures \/ failures' = failures + 1
    BY DEF Save, Take, Unlink, Write, GiveUp
  <2>2. failures \in Nat
    BY PersistenceAssumption DEF DiskInv, TypeInv, TypeOK
  <2> QED BY <2>1, <2>2
<1> QED BY <1>1, <1>2, <1>3 DEF Unbroken

\* What the threads leave alone, and the invariants that speak of nothing else.
LEMMA ThreadsLeave ==
  ASSUME NEW t \in Thread, Save(t)
  PROVE  /\ UNCHANGED <<memory, seen, day, lives, handed, phase>>
         /\ Open(Zone)' = Open(Zone)
         /\ CopiesOfOpen => CopiesOfOpen'
         /\ CompleteIsWhole => CompleteIsWhole'
         /\ OpenOrComplete => OpenOrComplete'
<1>1. UNCHANGED <<memory, seen, day, lives, handed, phase>>
  BY DEF Save, Take, Unlink, Write, GiveUp
<1>2. Open(Zone)' = Open(Zone)
  BY <1>1 DEF Open
<1> QED BY <1>1, <1>2 DEF CopiesOfOpen, CompleteIsWhole, OpenOrComplete

LEMMA TakeKeeps ==
  ASSUME DiskInv, NEW t \in Thread, Take(t)
  PROVE  Homes' /\ Errands' /\ OnDisk' /\ FirstLife'
<1>1. TypeInv /\ Homes /\ Errands /\ OnDisk /\ FirstLife
  BY DEF DiskInv
<1>2. UNCHANGED <<memory, seen, day, lives, handed, open, done, failures>>
      /\ Open(Zone)' = Open(Zone)
  BY ThreadsLeave DEF Save, Take
<1>3. /\ Pending' = Pending
      /\ \A u \in Thread \ {t} : thread'[u] = thread[u]
      /\ thread'[t].step = "unlink" => thread'[t].copy.status = "complete"
  BY <1>1, Taken
<1>4. Homes' /\ (DoneWasHanded => DoneWasHanded')
  BY <1>1, <1>2 DEF Homes, DoneWasHanded
<1>5. Errands'
  BY <1>1, <1>2, <1>3 DEF Errands
<1>6. OnDisk'
  BY <1>1, <1>2, <1>3 DEF OnDisk
<1>7. CompleteArrives => CompleteArrives'
  BY <1>2, <1>3 DEF CompleteArrives
<1> QED BY <1>1, <1>4, <1>5, <1>6, <1>7, ThreadsLeave, SavesGoOn DEF FirstLife, Save

LEMMA UnlinkKeeps ==
  ASSUME DiskInv, NEW t \in Thread, Unlink(t)
  PROVE  Homes' /\ Errands' /\ OnDisk' /\ FirstLife'
<1>1. TypeInv /\ Homes /\ Errands /\ OnDisk /\ FirstLife
  BY DEF DiskInv
<1>2. UNCHANGED <<memory, seen, day, lives, handed, done>> /\ Open(Zone)' = Open(Zone)
  BY ThreadsLeave DEF Save, Unlink
<1> DEFINE c == thread[t].copy
<1>3. /\ Pending' = Pending /\ c \in Pending
      /\ \A u \in Thread \ {t} : thread'[u] = thread[u]
      /\ thread'[t].step = "write"
      /\ DOMAIN open' \subseteq DOMAIN open
      /\ DOMAIN open \subseteq DOMAIN open' \cup {c.basket}
      /\ failures' = 0 => failures = 0
  BY <1>1, Unlinked
<1>4. c.status = "complete"
  BY <1>1 DEF Unlink, Errands
<1>5. Homes' /\ (DoneWasHanded => DoneWasHanded')
  BY <1>1, <1>2, <1>3 DEF Homes, DoneWasHanded
<1>6. Errands'
  BY <1>1, <1>2, <1>3 DEF Errands
<1> HIDE DEF c
<1>7. \A z \in Open(Zone) : memory[z].basket # c.basket
  BY <1>1, <1>3, <1>4 DEF OnDisk
<1>8. OnDisk'
  BY <1>1, <1>2, <1>3, <1>7 DEF OnDisk
<1>9. CompleteArrives => CompleteArrives'
  BY <1>2, <1>3 DEF CompleteArrives
<1> QED BY <1>1, <1>5, <1>6, <1>8, <1>9, ThreadsLeave, SavesGoOn DEF FirstLife, Save

LEMMA WriteKeeps ==
  ASSUME DiskInv, NEW t \in Thread, Write(t)
  PROVE  Homes' /\ Errands' /\ OnDisk' /\ FirstLife'
<1>1. TypeInv /\ Homes /\ Errands /\ OnDisk /\ FirstLife
  BY DEF DiskInv
<1>2. UNCHANGED <<memory, seen, day, lives, handed, failures>> /\ Open(Zone)' = Open(Zone)
  BY ThreadsLeave DEF Save, Write
<1> DEFINE c == thread[t].copy
<1>3. /\ c \in Copy
      /\ \/ /\ c.status = "active"
            /\ DOMAIN open' = DOMAIN open \cup {c.basket}
            /\ UNCHANGED done
         \/ /\ c.status = "complete"
            /\ UNCHANGED open
            /\ done' = Put(done, c.basket, c.last)
  BY <1>1, Written
<1>4. /\ c \in Pending
      /\ Pending' \subseteq Pending
      /\ \A d \in Pending : d = c \/ d \in Pending'
      /\ \A u \in Thread \ {t} : thread'[u] = thread[u]
      /\ thread'[t] = Idle
  BY <1>1, Written, Finished
<1> HIDE DEF c
<1>5. c \in handed
  BY <1>1, <1>4 DEF Errands
<1>6. Homes'
  <2>1. DOMAIN open' \subseteq DOMAIN open \cup {c.basket}
    BY <1>3
  <2> QED BY <1>1, <1>2, <1>5, <2>1 DEF Homes
<1>7. Errands'
  BY <1>1, <1>2, <1>4 DEF Errands, Idle
<1>8. DOMAIN done \subseteq DOMAIN done'
      /\ (c.status = "complete" => c.basket \in DOMAIN done')
  BY <1>3 DEF Put
<1>9. ASSUME DoneWasHanded PROVE DoneWasHanded'
  <2>1. CASE UNCHANGED done
    BY <1>2, <1>9, <2>1 DEF DoneWasHanded
  <2>2. CASE c.status = "complete" /\ done' = Put(done, c.basket, c.last)
    <3>1. CopyOf(c.basket, c.last, "complete") = c
      BY <1>3, <2>2 DEF CopyOf, Copy
    <3>2. /\ DOMAIN done' = DOMAIN done \cup {c.basket}
          /\ done'[c.basket] = c.last
          /\ \A b \in DOMAIN done \ {c.basket} : done'[b] = done[b]
      BY <2>2 DEF Put
    <3> QED BY <1>2, <1>5, <1>9, <3>1, <3>2 DEF DoneWasHanded
  <2> QED BY <1>3, <2>1, <2>2
<1>10. OnDisk'
  <2> SUFFICES ASSUME NEW z \in Open(Zone)
               PROVE  /\ \A d \in Pending' : d.basket = memory[z].basket => d.status = "active"
                      /\ failures = 0 => \/ memory[z].basket \in DOMAIN open'
                                         \/ \E d \in Pending' : d.basket = memory[z].basket
    BY <1>2 DEF OnDisk
  <2>1. \A d \in Pending : d.basket = memory[z].basket => d.status = "active"
    BY <1>1 DEF OnDisk
  <2>2. failures = 0 => \/ memory[z].basket \in DOMAIN open
                        \/ \E d \in Pending : d.basket = memory[z].basket
    BY <1>1 DEF OnDisk
  <2>3. DOMAIN open \subseteq DOMAIN open'
    BY <1>3
  <2>4. c.basket = memory[z].basket => memory[z].basket \in DOMAIN open'
    BY <1>3, <1>4, <2>1
  <2> QED BY <1>4, <2>1, <2>2, <2>3, <2>4
<1>11. CompleteArrives => CompleteArrives'
  BY <1>2, <1>4, <1>8 DEF CompleteArrives
<1> QED BY <1>1, <1>6, <1>7, <1>9, <1>10, <1>11, ThreadsLeave, SavesGoOn DEF FirstLife, Save

LEMMA GiveUpKeeps ==
  ASSUME DiskInv, NEW t \in Thread, GiveUp(t)
  PROVE  Homes' /\ Errands' /\ OnDisk' /\ FirstLife'
<1>1. TypeInv /\ Homes /\ Errands /\ OnDisk
  BY DEF DiskInv
<1>2. UNCHANGED <<memory, seen, handed, open, done>> /\ Open(Zone)' = Open(Zone)
      /\ failures' # 0
  <2>1. failures \in Nat
    BY <1>1, PersistenceAssumption DEF TypeInv, TypeOK
  <2>2. failures' = failures + 1 /\ UNCHANGED <<memory, seen, handed, open, done>>
    BY DEF GiveUp
  <2>3. Open(Zone)' = Open(Zone)
    BY <2>2 DEF Open
  <2> QED BY <2>1, <2>2, <2>3
<1>3. /\ Pending' \subseteq Pending
      /\ \A u \in Thread \ {t} : thread'[u] = thread[u]
      /\ thread'[t] = Idle
  BY <1>1, Finished DEF GiveUp
<1>4. Homes'
  BY <1>1, <1>2 DEF Homes
<1>5. Errands'
  BY <1>1, <1>2, <1>3 DEF Errands, Idle
<1>6. OnDisk'
  BY <1>1, <1>2, <1>3 DEF OnDisk
<1> QED BY <1>2, <1>4, <1>5, <1>6 DEF FirstLife, Unbroken

LEMMA RestKeeps ==
  ASSUME DiskInv, BeginShutdown \/ Exit \/ NextDay \/ UNCHANGED vars
  PROVE  Homes' /\ Errands' /\ OnDisk' /\ FirstLife'
<1>1. TypeInv /\ Homes /\ Errands /\ OnDisk /\ FirstLife
  BY DEF DiskInv
<1>2. UNCHANGED <<memory, seen, lives, handed, jobs, thread, open, failures>>
  BY DEF BeginShutdown, Exit, NextDay, vars
<1>3. Open(Zone)' = Open(Zone) /\ Pending' = Pending
  BY <1>2 DEF Open, Pending, Held
<1>4. /\ DOMAIN done' \subseteq DOMAIN done
      /\ \A b \in DOMAIN done' : done'[b] = done[b]
      /\ \A b \in DOMAIN done : b \in DOMAIN done' \/ day - b.day > KeepDays
  BY DEF BeginShutdown, Exit, NextDay, vars, Without, Restrict
<1>5. Homes' /\ Errands' /\ OnDisk'
  BY <1>1, <1>2, <1>3 DEF Homes, Errands, OnDisk
<1>6. (DoneWasHanded => DoneWasHanded') /\ (Unbroken' => Unbroken)
  BY <1>2, <1>4 DEF DoneWasHanded, Unbroken, BeginShutdown, Exit, NextDay, vars
<1>7. CompleteArrives => CompleteArrives'
  <2> SUFFICES ASSUME CompleteArrives, NEW c \in handed, c.status = "complete",
                      c \notin Pending, c.basket \notin DOMAIN done'
               PROVE  day' - c.basket.day > KeepDays
    BY <1>2, <1>3 DEF CompleteArrives
  <2>1. day - c.basket.day > KeepDays
    BY <1>4 DEF CompleteArrives
  <2>2. day' = day \/ day' = day + 1
    BY DEF BeginShutdown, Exit, NextDay, vars
  <2>3. day \in Nat /\ KeepDays \in Nat
    BY <1>1, PersistenceAssumption DEF TypeInv, TypeOK
  <2>4. c.basket.day \in Nat
    BY <1>1, PersistenceAssumption DEF TypeInv, TypeOK, Copy, Basket
  <2> QED BY <2>1, <2>2, <2>3, <2>4
<1>8. (CopiesOfOpen => CopiesOfOpen') /\ (CompleteIsWhole => CompleteIsWhole')
      /\ (OpenOrComplete => OpenOrComplete')
  BY <1>2, <1>3 DEF CopiesOfOpen, CompleteIsWhole, OpenOrComplete
<1> QED BY <1>1, <1>5, <1>6, <1>7, <1>8 DEF FirstLife

LEMMA CrashKeeps ==
  ASSUME DiskInv, Crash
  PROVE  Homes' /\ Errands' /\ OnDisk' /\ FirstLife'
<1>1. Homes /\ Errands
  BY DEF DiskInv
<1>2. UNCHANGED <<seen, open>> /\ handed' = {} /\ phase' = "down"
      /\ \A t \in Thread : thread'[t] = Idle
  BY DEF Crash
<1>3. Open(Zone)' = {}
  BY DEF Crash, Dropped, Open
<1>4. AtRest'
  BY DEF Crash, AtRest
<1>5. Pending' = {}
  <2>1. AtRest => Pending = {}
    BY NothingPending
  <2>2. (AtRest => Pending = {})'
    BY NothingPending, PTL
  <2> QED BY <1>4, <2>2
<1> QED BY <1>1, <1>2, <1>3, <1>5 DEF Homes, Errands, OnDisk, FirstLife, Unbroken, Idle

LEMMA StartKeeps ==
  ASSUME DiskInv, Start
  PROVE  Homes' /\ Errands' /\ OnDisk' /\ FirstLife'
<1>1. TypeInv /\ Homes /\ Errands
  BY DEF DiskInv
<1>2. UNCHANGED <<seen, thread, open, done, day>> /\ AtRest /\ lives' = lives + 1
  BY DEF Start, DiskInv, Stopping
<1>3. PICK files, zones :
        /\ DOMAIN files \subseteq DOMAIN open
        /\ \A z \in zones : Newest(z, files) \in FilesOf(z, files)
        /\ Pending' = Pending \cup {Completed(Found(z, files)) : z \in zones}
        /\ handed' = handed \cup {Completed(Found(z, files)) : z \in zones}
        /\ zones \cap Open(Zone)' = {}
        /\ \A z \in Open(Zone)' : /\ memory'[z] = Found(z, files)
                                  /\ Newest(z, files) \in FilesOf(z, files)
  BY <1>1, Started
<1>4. \A z \in zones : Newest(z, files) \in DOMAIN open /\ Newest(z, files).zone = z
  BY <1>3 DEF FilesOf
<1>5. \A z \in Open(Zone)' : /\ memory'[z].basket \in DOMAIN open
                             /\ memory'[z].basket.zone = z
  <2> SUFFICES ASSUME NEW z \in Open(Zone)'
               PROVE  /\ memory'[z].basket \in DOMAIN open
                      /\ memory'[z].basket.zone = z
    OBVIOUS
  <2>1. memory'[z] = Found(z, files) /\ Newest(z, files) \in FilesOf(z, files)
    BY <1>3
  <2>2. memory'[z].basket = Newest(z, files)
    BY <2>1 DEF Found
  <2> QED BY <1>3, <2>1, <2>2 DEF FilesOf
<1> DEFINE new == {Completed(Found(z, files)) : z \in zones}
<1>6. \A c \in new : \E z \in zones : c.basket = Newest(z, files) /\ c.status = "complete"
  BY DEF Completed, CopyOf, Found
<1>7. Pending = {}
  BY <1>2, NothingPending
<1>8. Pending' = new /\ handed' = handed \cup new
  BY <1>3, <1>7
<1> HIDE DEF new
<1>9. \A c \in new : c.basket \in DOMAIN open /\ c.basket.zone \in zones
  BY <1>4, <1>6
<1>10. Homes'
  <2>1. \A b \in DOMAIN open : b.time <= seen
    BY <1>1 DEF Homes
  <2>2. \A z \in Open(Zone)' : memory'[z].basket.zone = z /\ memory'[z].basket.time <= seen
    BY <1>5, <2>1
  <2>3. \A c \in handed' : c.basket.time <= seen
    BY <1>1, <1>8, <1>9, <2>1 DEF Homes
  <2> QED BY <1>2, <2>1, <2>2, <2>3 DEF Homes
<1>11. Errands'
  BY <1>1, <1>2, <1>8 DEF Errands
<1>12. OnDisk'
  <2>1. \A z \in Open(Zone)', c \in new : c.basket # memory'[z].basket
    BY <1>3, <1>5, <1>9
  <2> QED BY <1>2, <1>5, <1>8, <2>1 DEF OnDisk
<1>13. lives' # 1
  BY <1>1, <1>2 DEF TypeInv, TypeOK
<1> QED BY <1>10, <1>11, <1>12, <1>13 DEF FirstLife, Unbroken

LEMMA StoppingStep == DiskInv /\ [Next]_vars => Stopping'
<1> SUFFICES ASSUME DiskInv, [Next]_vars PROVE Stopping'
  OBVIOUS
<1>1. TypeInv /\ Stopping
  BY DEF DiskInv
<1>2. ASSUME NEW z \in Zone, AddTrigger(z) PROVE Stopping'
  BY <1>2 DEF AddTrigger, Stopping
<1>3. ASSUME NEW zones, Closes(zones) PROVE Stopping'
  <2>1. Open(Zone)' = Open(Zone) \ zones
    BY <1>1, <1>3, Closed DEF Closes
  <2> QED BY <1>3, <2>1 DEF Closes, Stopping
<1>4. CASE FinalizeTimedOut \/ FinalizeGlobalSession \/ ClearAll
             \/ \E z \in Zone : FinalizeSession(z)
  BY <1>1, <1>3, <1>4, ClosesWhich
<1>5. ASSUME NEW t \in Thread, Save(t) PROVE Stopping'
  <2>1. ~AtRest
    BY <1>5, SavesGoOn
  <2>2. phase' = phase /\ Open(Zone)' = Open(Zone)
    BY <1>5, ThreadsLeave
  <2> QED BY <1>1, <2>1, <2>2 DEF Stopping
<1>6. CASE BeginShutdown
  BY <1>6 DEF BeginShutdown, Stopping
<1>7. CASE Exit
  <2>1. Open(Zone)' = Open(Zone) /\ AtRest'
    BY <1>7 DEF Exit, Open, AtRest
  <2> QED BY <1>1, <1>7, <2>1 DEF Exit, Stopping
<1>8. CASE Crash
  <2>1. Open(Zone)' = {} /\ AtRest'
    BY <1>8 DEF Crash, Dropped, Open, AtRest
  <2> QED BY <2>1 DEF Stopping
<1>9. CASE Start
  BY <1>9 DEF Start, Stopping
<1>10. CASE NextDay \/ UNCHANGED vars
  <2>1. UNCHANGED <<memory, phase, jobs, thread>>
    BY <1>10 DEF NextDay, vars
  <2> QED BY <1>1, <2>1 DEF Stopping, Open, AtRest
<1> QED BY <1>2, <1>4, <1>5, <1>6, <1>7, <1>8, <1>9, <1>10 DEF Next, Change

-----------------------------------------------------------------------------
(* The files a start finds. *)

\* Where sources only go and open baskets only close, nothing comes to overlap.
LEMMA FewerSources ==
  ASSUME Spans /\ BasketsApart, Sources' \subseteq Sources, seen' = seen,
         failures' = 0 => failures = 0,
         Open(Zone)' \subseteq Open(Zone), \A z \in Open(Zone)' : memory'[z] = memory[z]
  PROVE  Spans' /\ BasketsApart'
<1>1. Spans'
  BY DEF Spans, Span
<1>2. BasketsApart'
  BY DEF BasketsApart, Before
<1> QED BY <1>1, <1>2

\* The file of a basket is the source it was.
LEMMA StoredIs ==
  ASSUME NEW b
  PROVE  /\ CopyOf(b, open[b], "active").basket = b
         /\ CopyOf(b, open[b], "active").last = open[b]
         /\ b \in DOMAIN open => CopyOf(b, open[b], "active") \in Sources
  BY DEF CopyOf, Sources, Stored

LEMMA SavesKeepSources ==
  ASSUME DiskInv, NEW t \in Thread, Save(t)
  PROVE  Spans' /\ BasketsApart'
<1>1. TypeInv /\ Spans /\ BasketsApart
  BY DEF DiskInv
<1>2. seen' = seen /\ memory' = memory /\ Open(Zone)' = Open(Zone)
      /\ (failures' = 0 => failures = 0)
  BY ThreadsLeave, SavesGoOn
<1>3. Sources' \subseteq Sources
  <2>1. CASE Take(t)
    <3>1. Pending' = Pending /\ open' = open
      BY <1>1, <2>1, Taken DEF Take
    <3> QED BY <3>1 DEF Sources, Stored
  <2>2. CASE Unlink(t)
    <3>1. Pending' = Pending /\ DOMAIN open' \subseteq DOMAIN open
          /\ \A b \in DOMAIN open' : open'[b] = open[b]
      BY <1>1, <2>2, Unlinked
    <3> QED BY <3>1 DEF Sources, Stored
  <2>3. CASE Write(t)
    <3> DEFINE c == thread[t].copy
    <3>1. /\ c \in Pending /\ c \in Copy
          /\ Pending' \subseteq Pending
          /\ \/ c.status = "active" /\ open' = Put(open, c.basket, c.last)
             \/ open' = open
      BY <1>1, <2>3, Written, Finished
    <3> HIDE DEF c
    <3>2. CASE open' = open
      BY <3>1, <3>2 DEF Sources, Stored
    <3>3. CASE c.status = "active" /\ open' = Put(open, c.basket, c.last)
      <4>1. /\ DOMAIN open' = DOMAIN open \cup {c.basket}
            /\ open'[c.basket] = c.last
            /\ \A b \in DOMAIN open \ {c.basket} : open'[b] = open[b]
        BY <3>3 DEF Put
      <4>2. CopyOf(c.basket, c.last, "active") = c
        BY <3>1, <3>3 DEF CopyOf, Copy
      <4>3. Stored' \subseteq Stored \cup {c}
        BY <4>1, <4>2 DEF Stored
      <4> QED BY <3>1, <3>3, <4>3 DEF Sources
    <3> QED BY <3>1, <3>2, <3>3
  <2>4. CASE GiveUp(t)
    <3>1. Pending' \subseteq Pending /\ open' = open
      BY <1>1, <2>4, Finished DEF GiveUp
    <3> QED BY <3>1 DEF Sources, Stored
  <2> QED BY <2>1, <2>2, <2>3, <2>4 DEF Save
<1> QED BY <1>1, <1>2, <1>3, FewerSources

LEMMA RestKeepsSources ==
  ASSUME DiskInv, BeginShutdown \/ Exit \/ NextDay \/ UNCHANGED vars \/ Crash
  PROVE  Spans' /\ BasketsApart'
<1>1. Spans /\ BasketsApart
  BY DEF DiskInv
<1>2. UNCHANGED <<seen, open, failures>>
  BY DEF BeginShutdown, Exit, NextDay, Crash, vars
<1>3. CASE UNCHANGED <<memory, jobs, thread>>
  <2>1. Open(Zone)' = Open(Zone) /\ Pending' = Pending
    BY <1>3 DEF Open, Pending, Held
  <2> QED BY <1>1, <1>2, <1>3, <2>1, FewerSources DEF Sources, Stored
<1>4. CASE Crash
  <2>1. Open(Zone)' = {} /\ AtRest'
    BY <1>4 DEF Crash, Dropped, Open, AtRest
  <2>2. AtRest => Pending = {}
    BY NothingPending
  <2>3. (AtRest => Pending = {})'
    BY NothingPending, PTL
  <2>4. Sources' \subseteq Sources
    BY <1>2, <2>1, <2>3 DEF Sources, Stored
  <2> QED BY <1>1, <1>2, <2>1, <2>4, FewerSources
<1> QED BY <1>3, <1>4 DEF BeginShutdown, Exit, NextDay, vars

LEMMA ClosesKeepsSources ==
  ASSUME DiskInv, NEW zones, Closes(zones)
  PROVE  Spans' /\ BasketsApart'
<1>1. TypeInv /\ Spans /\ BasketsApart
  BY DEF DiskInv
<1>2. UNCHANGED <<seen, open, failures>>
  BY DEF Closes
<1>3. /\ Pending' = Pending \cup {Completed(memory[z]) : z \in zones}
      /\ Open(Zone)' = Open(Zone) \ zones
      /\ \A z \in Open(Zone)' : memory'[z] = memory[z]
  BY <1>1, Closed DEF Closes
<1>4. \A z \in zones : Completed(memory[z]).status # "active"
  BY DEF Completed, CopyOf
<1>5. Sources' \subseteq Sources
  BY <1>2, <1>3, <1>4 DEF Sources, Stored
<1> QED BY <1>1, <1>2, <1>3, <1>5, FewerSources

\* Sources are copies.
LEMMA SourcesTyped ==
  ASSUME TypeInv
  PROVE  Sources \subseteq Copy
<1>1. Stored \subseteq Copy
  <2> SUFFICES ASSUME NEW b \in DOMAIN open PROVE CopyOf(b, open[b], "active") \in Copy
    BY DEF Stored
  <2>1. b \in Basket /\ open[b] \in 1..MaxTriggers
    BY TypeHere
  <2> QED BY <2>1 DEF CopyOf, Copy
<1>2. Pending \subseteq Copy
  BY JobsTyped, TypeHere DEF Pending, Held, Busy
<1> QED BY <1>1, <1>2 DEF Sources

\* A trigger is later than all that is stored.
LEMMA AddKeepsSources ==
  ASSUME DiskInv, NEW z \in Zone, AddTrigger(z)
  PROVE  Spans' /\ BasketsApart'
<1>1. TypeInv /\ Spans /\ BasketsApart /\ Homes
  BY DEF DiskInv
<1>2. PICK b \in Basket, n \in 1..MaxTriggers, replace \in BOOLEAN :
        /\ Adds(z, replace, b, n)
        /\ n = seen + 1 /\ seen' = seen + 1
        /\ replace => b.zone = z /\ b.time = seen + 1
        /\ ~replace => z \in Open(Zone) /\ b = memory[z].basket
  BY <1>1, Added
<1> DEFINE new == CopyOf(b, n, "active")
<1>3. new.basket = b /\ new.last = n /\ new.status = "active"
  BY DEF CopyOf
<1>4. UNCHANGED <<open, failures>>
  BY DEF AddTrigger
<1>5. Sources' = Sources \cup {new}
  <2>1. Completed(memory[z]).status # "active"
    BY DEF Completed, CopyOf
  <2>2. Stored' = Stored
    BY <1>4 DEF Stored
  <2>3. \E old \in SUBSET {Completed(memory[z])} : Pending' = Pending \cup old \cup {new}
    <3>1. CASE replace /\ memory[z] # NoBasket
      BY <1>2, <3>1 DEF Adds
    <3>2. CASE ~(replace /\ memory[z] # NoBasket)
      <4>1. Pending' = Pending \cup {} \cup {new}
        BY <1>2, <3>2 DEF Adds
      <4> QED BY <4>1
    <3> QED BY <3>1, <3>2
  <2> HIDE DEF new
  <2> QED BY <1>3, <2>1, <2>2, <2>3 DEF Sources
<1>6. /\ Open(Zone)' = Open(Zone) \cup {z}
      /\ memory'[z].basket = b /\ memory'[z].last = n
      /\ \A y \in Zone \ {z} : memory'[y] = memory[y]
  BY <1>1, <1>2, AddedWhere
<1> HIDE DEF new
<1>7. /\ seen \in Nat /\ b.time \in Nat /\ n \in Nat
      /\ \A c \in Sources : c.last \in Nat /\ c.basket.time \in Nat
      /\ \A y \in Open(Zone) : memory[y].basket.time \in Nat /\ memory[y].last \in Nat
      /\ Open(Zone) \subseteq Zone
  <2>1. seen \in Nat /\ MaxTriggers \in Nat /\ b.time \in Nat /\ n \in Nat
    BY <1>1, PersistenceAssumption DEF TypeInv, TypeOK, Basket
  <2>2. Sources \subseteq Copy
    BY <1>1, SourcesTyped
  <2>3. \A c \in Sources : c.last \in Nat /\ c.basket.time \in Nat
    BY <2>1, <2>2 DEF Copy, Basket
  <2>4. \A y \in Open(Zone) : memory[y] \in OpenBasket
    BY <1>1, OpenIs DEF Open
  <2> QED BY <2>1, <2>3, <2>4 DEF OpenBasket, Basket, Open
<1>8. b.zone = z /\ b.time <= n
  <2>1. CASE replace
    BY <1>2, <1>7, <2>1
  <2>2. CASE ~replace
    <3>1. memory[z].basket.zone = z /\ memory[z].basket.time <= seen
      BY <1>1, <1>2, <2>2 DEF Homes
    <3> QED BY <1>2, <1>7, <2>2, <3>1
  <2> QED BY <2>1, <2>2
<1>9. Spans'
  <2>1. ASSUME NEW y \in Open(Zone)'
        PROVE  memory'[y].basket.time <= memory'[y].last /\ memory'[y].last <= seen'
    <3>1. CASE y = z
      BY <1>2, <1>6, <1>7, <1>8, <3>1
    <3>2. CASE y # z
      <4>1. y \in Open(Zone) /\ memory'[y] = memory[y]
        BY <1>6, <1>7, <3>2
      <4> QED BY <1>1, <1>2, <1>7, <4>1 DEF Spans, Span
    <3> QED BY <3>1, <3>2
  <2>2. ASSUME NEW c \in Sources' PROVE c.basket.time <= c.last /\ c.last <= seen'
    <3>1. CASE c = new
      BY <1>2, <1>3, <1>7, <1>8, <3>1
    <3>2. CASE c \in Sources
      BY <1>1, <1>2, <1>7, <3>2 DEF Spans, Span
    <3> QED BY <1>5, <3>1, <3>2
  <2> QED BY <2>1, <2>2 DEF Spans, Span
<1>10. ASSUME failures = 0, NEW c \in Sources, c.basket.zone = z, c.basket # b
       PROVE  c.last < b.time
  <2>1. CASE replace
    BY <1>1, <1>2, <1>7, <2>1 DEF Spans, Span
  <2>2. CASE ~replace
    BY <1>1, <1>2, <1>10, <2>2 DEF BasketsApart, Before
  <2> QED BY <2>1, <2>2
<1>11. ASSUME failures' = 0, NEW c \in Sources', NEW d \in Sources',
              c.basket.zone = d.basket.zone, c.basket # d.basket
       PROVE  c.last < d.basket.time \/ d.last < c.basket.time
  <2>1. CASE c \in Sources /\ d \in Sources
    BY <1>1, <1>4, <1>11, <2>1 DEF BasketsApart, Before
  <2>2. CASE c = new /\ d \in Sources
    BY <1>3, <1>4, <1>8, <1>10, <1>11, <2>2
  <2>3. CASE c \in Sources /\ d = new
    BY <1>3, <1>4, <1>8, <1>10, <1>11, <2>3
  <2> QED BY <1>5, <1>11, <2>1, <2>2, <2>3
<1>12. ASSUME failures' = 0, NEW y \in Open(Zone)', NEW c \in Sources',
              c.basket.zone = y, c.basket # memory'[y].basket
       PROVE  c.last < memory'[y].basket.time
  <2>1. CASE y = z
    <3>1. c \in Sources
      BY <1>3, <1>5, <1>6, <1>12, <2>1
    <3> QED BY <1>4, <1>6, <1>10, <1>12, <2>1, <3>1
  <2>2. CASE y # z
    <3>1. y \in Open(Zone) /\ memory'[y] = memory[y]
      BY <1>6, <1>7, <2>2
    <3>2. c \in Sources
      BY <1>3, <1>5, <1>8, <1>12, <2>2
    <3> QED BY <1>1, <1>4, <1>12, <3>1, <3>2 DEF BasketsApart, Before
  <2> QED BY <2>1, <2>2
<1> QED BY <1>9, <1>11, <1>12 DEF BasketsApart, Before

\* A start that can read every file takes up the basket all others end before.
LEMMA StartKeepsSources ==
  ASSUME DiskInv, Start
  PROVE  Spans' /\ BasketsApart'
<1>1. TypeInv /\ Spans /\ BasketsApart
  BY DEF DiskInv
<1>2. UNCHANGED <<seen, open>> /\ AtRest
  BY DEF Start, DiskInv, Stopping
<1>3. PICK files, zones :
        /\ DOMAIN files \subseteq DOMAIN open
        /\ \A b \in DOMAIN files : files[b] = open[b]
        /\ failures' = 0 => failures = 0 /\ DOMAIN files = DOMAIN open
        /\ Pending' = Pending \cup {Completed(Found(z, files)) : z \in zones}
        /\ \A z \in Open(Zone)' :
             /\ memory'[z] = Found(z, files)
             /\ Newest(z, files) \in FilesOf(z, files)
             /\ \A c \in FilesOf(z, files) : files[Newest(z, files)] >= files[c]
  BY <1>1, Started
<1>4. Sources' = Stored /\ Sources = Stored
  <2>1. Pending = {}
    BY <1>2, NothingPending
  <2>2. \A z \in zones : Completed(Found(z, files)).status # "active"
    BY DEF Completed, CopyOf
  <2>3. Stored' = Stored
    BY <1>2 DEF Stored
  <2> QED BY <1>3, <2>1, <2>2, <2>3 DEF Sources
<1>5. ASSUME NEW z \in Open(Zone)'
      PROVE  /\ memory'[z].basket \in DOMAIN open
             /\ memory'[z].basket.zone = z
             /\ memory'[z].last = open[memory'[z].basket]
             /\ \A b \in DOMAIN files : b.zone = z => memory'[z].last >= open[b]
  <2>1. /\ memory'[z] = Found(z, files) /\ Newest(z, files) \in FilesOf(z, files)
        /\ \A c \in FilesOf(z, files) : files[Newest(z, files)] >= files[c]
    BY <1>3, <1>5
  <2>2. /\ memory'[z].basket = Newest(z, files)
        /\ memory'[z].last = files[Newest(z, files)]
    BY <2>1 DEF Found
  <2>3. Newest(z, files) \in DOMAIN files /\ Newest(z, files).zone = z
    BY <2>1 DEF FilesOf
  <2>4. ASSUME NEW b \in DOMAIN files, b.zone = z
        PROVE  memory'[z].last >= open[b]
    <3>1. b \in FilesOf(z, files)
      BY <2>4 DEF FilesOf
    <3>2. files[b] = open[b]
      BY <1>3
    <3> QED BY <2>1, <2>2, <3>1, <3>2
  <2> QED BY <1>3, <2>2, <2>3, <2>4
<1>6. Spans'
  <2>1. ASSUME NEW z \in Open(Zone)'
        PROVE  memory'[z].basket.time <= memory'[z].last /\ memory'[z].last <= seen'
    BY <1>1, <1>2, <1>5, <2>1, StoredIs DEF Spans, Span
  <2>2. ASSUME NEW c \in Sources' PROVE c.basket.time <= c.last /\ c.last <= seen'
    BY <1>1, <1>2, <1>4, <2>2 DEF Spans, Span
  <2> QED BY <2>1, <2>2 DEF Spans, Span
<1>7. ASSUME failures' = 0, NEW z \in Open(Zone)', NEW c \in Sources',
             c.basket.zone = z, c.basket # memory'[z].basket
      PROVE  c.last < memory'[z].basket.time
  <2>1. PICK b \in DOMAIN open : c = CopyOf(b, open[b], "active")
    BY <1>4 DEF Stored
  <2>2. c.basket = b /\ c.last = open[b]
    BY <2>1, StoredIs
  <2> DEFINE m == memory'[z].basket
             d == CopyOf(m, open[m], "active")
  <2>3. d.basket = m /\ d.last = open[m] /\ d \in Sources /\ m.zone = z
    BY <1>5, StoredIs
  <2>4. c \in Sources
    BY <1>4
  <2>5. open[m] >= open[b]
    BY <1>3, <1>5, <1>7, <2>2
  <2>6. c.last < m.time \/ open[m] < b.time
    BY <1>1, <1>3, <1>7, <2>2, <2>3, <2>4 DEF BasketsApart, Before
  <2>7. b.time <= open[b]
    BY <1>1, <2>2, <2>4 DEF Spans, Span
  <2>8. b.time \in Nat /\ open[b] \in Nat /\ open[m] \in Nat
    BY <1>1, <1>5, TypeHere, PersistenceAssumption DEF Basket
  <2> QED BY <2>2, <2>5, <2>6, <2>7, <2>8
<1>8. ASSUME failures' = 0 PROVE failures = 0
  BY <1>3, <1>8
<1> QED BY <1>1, <1>4, <1>6, <1>7, <1>8 DEF BasketsApart, Before

LEMMA DiskStep == DiskInv /\ [Next]_vars => DiskInv'
<1> SUFFICES ASSUME DiskInv, [Next]_vars
             PROVE  /\ TypeInv' /\ Stopping'
                    /\ Homes' /\ Errands' /\ OnDisk' /\ FirstLife' /\ Spans' /\ BasketsApart'
  BY DEF DiskInv
<1>1. TypeInv' /\ Stopping'
  BY TypeStep, StoppingStep DEF DiskInv
<1>2. CASE \E z \in Zone : AddTrigger(z)
  BY <1>1, <1>2, AddKeeps, AddKeepsSources
<1>3. CASE FinalizeTimedOut \/ FinalizeGlobalSession \/ ClearAll
             \/ \E z \in Zone : FinalizeSession(z)
  <2>1. PICK zones : Closes(zones)
    BY <1>3, ClosesWhich DEF DiskInv
  <2> QED BY <1>1, <2>1, ClosesKeeps, ClosesKeepsSources
<1>4. CASE \E t \in Thread : Save(t)
  BY <1>1, <1>4, TakeKeeps, UnlinkKeeps, WriteKeeps, GiveUpKeeps, SavesKeepSources DEF Save
<1>5. CASE BeginShutdown \/ Exit \/ NextDay \/ UNCHANGED vars
  BY <1>1, <1>5, RestKeeps, RestKeepsSources
<1>6. CASE Crash
  BY <1>1, <1>6, CrashKeeps, RestKeepsSources
<1>7. CASE Start
  BY <1>1, <1>7, StartKeeps, StartKeepsSources
<1> QED BY <1>1, <1>2, <1>3, <1>4, <1>5, <1>6, <1>7 DEF Next, Change

\* THEOREM: while no file operation has failed, through any number of crashes
\* and for any order of the threads' writes, an open basket whose saves are done
\* is the newest of its zone's files: a crash now would bring it back.
THEOREM OpenBasketsRecover == Spec => []OpenIsRecoverable
<1>1. DiskInv => OpenIsRecoverable
  <2> SUFFICES ASSUME DiskInv, failures = 0, NEW z \in Open(Zone), ~Unsaved(z)
               PROVE  /\ memory[z].basket \in DOMAIN open
                      /\ Newest(z, open) = memory[z].basket
    BY DEF OpenIsRecoverable
  <2> DEFINE m == memory[z].basket
             b == Newest(z, open)
  <2>1. \A c \in Pending : c.basket # m
    BY DEF Unsaved, Pending, Held
  <2>2. m \in DOMAIN open /\ m.zone = z
    BY <2>1 DEF DiskInv, OnDisk, Homes
  <2>3. DOMAIN open \subseteq Basket /\ \A x \in DOMAIN open : open[x] \in 1..MaxTriggers
    BY TypeHere DEF DiskInv
  <2>4. m \in FilesOf(z, open)
    BY <2>2 DEF FilesOf
  <2>5. b \in FilesOf(z, open) /\ \A c \in FilesOf(z, open) : open[b] >= open[c]
    BY <2>3, <2>4, NewestIs
  <2>6. b \in DOMAIN open /\ b.zone = z /\ open[b] >= open[m]
    BY <2>4, <2>5 DEF FilesOf
  <2>7. b # m => open[b] < m.time
    BY <2>6, StoredIs DEF DiskInv, BasketsApart, Before
  <2>8. m.time <= open[m]
    BY <2>2, StoredIs DEF DiskInv, Spans, Span
  <2>9. m.time \in Nat /\ open[m] \in Nat /\ open[b] \in Nat
    BY <2>2, <2>3, <2>6, PersistenceAssumption DEF Basket
  <2> QED BY <2>2, <2>6, <2>7, <2>8, <2>9
<1> QED BY <1>1, InitDisk, DiskStep, PTL DEF Spec

\* THEOREM: a first process that stops in good order leaves every basket, with
\* every trigger it held, in completed/, but for those past the retention.
THEOREM StopLosesNothing == Spec => []StopKeepsAll
<1>1. DiskInv => StopKeepsAll
  <2> SUFFICES ASSUME DiskInv, failures = 0, phase = "down", lives = 1, NEW c \in handed,
                      ~ (day - c.basket.day > KeepDays)
               PROVE  c.basket \in DOMAIN done /\ done[c.basket] >= c.last
    BY DEF StopKeepsAll
  <2>1. Open(Zone) = {} /\ AtRest
    BY DEF DiskInv, Stopping
  <2>2. CompleteIsWhole /\ OpenOrComplete /\ CompleteArrives /\ DoneWasHanded
    BY DEF DiskInv, FirstLife, Unbroken
  <2>3. PICK d \in handed : d.basket = c.basket /\ d.status = "complete"
    BY <2>1, <2>2 DEF OpenOrComplete
  <2>4. c.basket \in DOMAIN done
    BY <2>1, <2>2, <2>3, NothingPending DEF CompleteArrives
  <2>5. CopyOf(c.basket, done[c.basket], "complete") \in handed
    BY <2>2, <2>4 DEF DoneWasHanded
  <2>6. c.last <= done[c.basket]
    BY <2>2, <2>5 DEF CompleteIsWhole, CopyOf
  <2>7. c.last \in Nat /\ done[c.basket] \in Nat
    BY <2>4, PersistenceAssumption DEF DiskInv, TypeInv, TypeOK, Copy
  <2> QED BY <2>4, <2>6, <2>7
<1> QED BY <1>1, InitDisk, DiskStep, PTL DEF Spec
=============================================================================
