------------------------------ MODULE MCCatalogue ------------------------------
EXTENDS Catalogue, TLC

Engine == "A" :> 1 @@ "B" :> 2 @@ "first" :> 0
Fallback == 2 :> 7

Row(idx, eng, name, shown, weight, price, stock) ==
  [idx |-> idx, eng |-> eng, name |-> name, shown |-> shown,
   weight |-> weight, price |-> price, stock |-> stock]

A == Row("1", "A", "", "A", 3, 10, 1)
AUnweighed == [A EXCEPT !.weight = 0]
ASoldOut == [A EXCEPT !.stock = 0, !.weight = 0]
ADearer == [A EXCEPT !.idx = "3", !.price = 20, !.weight = 4]
B == Row("2", "", "B", "beverage", 5, 0, 999)
BAsOne == Row("1", "B", "", "B", 0, 15, 1)
BNoIdx == Row("", "", "", "B", 0, 0, 1)
Unknown == Row("4", "X", "A", "A", 3, 10, 1)
First == Row("5", "first", "", "first", 3, 10, 1)
Dummy == Row("6", "A", "", "TEST", 3, 10, 1)

Some == {<<>>, <<A>>, <<AUnweighed, B>>, <<ASoldOut, Unknown>>, <<A, ADearer>>, <<ADearer, ASoldOut>>,
         <<BAsOne>>, <<BNoIdx, First>>, <<B, Dummy>>}
=============================================================================
