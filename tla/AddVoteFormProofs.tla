------------------------- MODULE AddVoteFormProofs -------------------------
(***************************************************************************)
(* Theorems about AddVoteForm, for every size of the screen and any number *)
(* of rows, texts and polls.                                               *)
(***************************************************************************)
EXTENDS AddVoteForm, TLAPS, SequenceTheorems, FiniteSetTheorems

-----------------------------------------------------------------------------
(* Facts about the operators *)

\* The rows on screen are finitely many, so the pool is asked for a number of
\* cells that exists.
LEMMA RowsCounted ==
  ASSUME NEW n \in Nat, NEW t \in Nat
  PROVE  Cardinality(VisibleRows(n, t)) \in Nat
<1>1. IsFiniteSet(1..n)
  BY FS_Interval
<1>2. VisibleRows(n, t) \in SUBSET (1..n)
  BY DEF VisibleRows
<1> QED
  BY <1>1, <1>2, FS_Subset, FS_CardinalityType

\* The pool only grows: the cells it had keep their texts, new ones are blank.
LEMMA PoolOfCells ==
  ASSUME NEW n \in Nat, cells \in Seq(Texts)
  PROVE  /\ Enough(n) \in Seq(Texts)
         /\ Len(cells) <= Len(Enough(n))
<1> DEFINE m == IF Len(cells) < n THEN n ELSE Len(cells)
<1>1. m \in Nat /\ Len(cells) <= m
  OBVIOUS
<1>2. \A c \in 1..m : (IF c <= Len(cells) THEN cells[c] ELSE Blank) \in Texts
  BY BlankAssumption
<1>3. Enough(n) \in [1..m -> Texts]
  BY <1>2 DEF Enough
<1> QED
  BY <1>1, <1>3

\* What reloadData leaves behind fits the rows it was given.
LEMMA ReloadFits ==
  ASSUME TypeOK, NEW n \in Nat, ReloadData(n)
  PROVE  /\ cells' \in Seq(Texts)
         /\ top' \in 0..LastTop(n)
         /\ cellOf' \in Injection(VisibleRows(n, top'), DOMAIN cells')
<1>1. LastTop(n) \in Nat
  BY VisibleAssumption DEF LastTop
<1>2. top \in Nat
  BY <1>1, VisibleAssumption DEF TypeOK, LastTop
<1>3. top' \in 0..LastTop(n)
  BY <1>1, <1>2 DEF ReloadData
<1>4. Cardinality(VisibleRows(n, top')) \in Nat
  BY <1>1, <1>3, RowsCounted
<1>5. cells' \in Seq(Texts)
  BY <1>4, PoolOfCells DEF ReloadData, TypeOK
<1> QED
  BY <1>3, <1>5 DEF ReloadData

\* Deleting a row leaves a list that is one shorter.
LEMMA RemovedItems ==
  ASSUME NEW list \in Seq(Nat), NEW row \in DOMAIN list
  PROVE  /\ RemoveItem(list, row) \in Seq(Nat)
         /\ Len(RemoveItem(list, row)) = Len(list) - 1
<1>1. Len(list) - 1 \in Nat
  OBVIOUS
<1>2. \A k \in 1..(Len(list) - 1) :
        (IF k < row THEN list[k] ELSE list[k + 1]) \in Nat
  OBVIOUS
<1>3. RemoveItem(list, row) \in [1..(Len(list) - 1) -> Nat]
  BY <1>2 DEF RemoveItem
<1> QED
  BY <1>1, <1>3, SMTT(30)

\* The first loop of variantsArray: every row carries its position.
LEMMA Renumbered ==
  ASSUME NEW list \in Seq(Nat)
  PROVE  /\ Renumber(list) \in Seq(Nat)
         /\ Len(Renumber(list)) = Len(list)
         /\ DOMAIN Renumber(list) = 1..Len(list)
         /\ \A k \in 1..Len(list) : Renumber(list)[k] = k
<1>1. Len(list) \in Nat /\ DOMAIN list = 1..Len(list)
  OBVIOUS
<1>2. Renumber(list) \in [1..Len(list) -> Nat]
  BY <1>1 DEF Renumber
<1> QED
  BY <1>1, <1>2 DEF Renumber

\* The second loop: when every row has its cell, a row's entry is numbered
\* by its position and carries a text.
LEMMA PublishedEntries ==
  ASSUME NEW list \in Seq(Nat), NEW text \in Seq(Texts),
         NEW shown, NEW deal \in [shown -> DOMAIN text],
         \A k \in DOMAIN list : list[k] = k,
         \A k \in DOMAIN list : HasCell(list[k], list, shown)
  PROVE  /\ VariantsArray(list, text, deal) \in Seq(Variant)
         /\ \A k \in DOMAIN VariantsArray(list, text, deal) :
              VariantsArray(list, text, deal)[k].variantId = k
<1> DEFINE entry(k) == [variantId |-> list[list[k]],
                        variantName |-> text[deal[list[k]]],
                        variantVoteStatus |-> 0]
<1>1. Len(list) \in Nat /\ DOMAIN list = 1..Len(list)
  OBVIOUS
<1>2. ASSUME NEW k \in DOMAIN list
      PROVE  entry(k) \in Variant /\ entry(k).variantId = k
  <2>1. k \in Nat /\ list[list[k]] = k
    BY <1>1
  <2>2. list[k] \in shown
    BY DEF HasCell
  <2>3. text[deal[list[k]]] \in Texts
    BY <2>2
  <2> QED
    BY <2>1, <2>3 DEF Variant
<1> HIDE DEF entry
<1>3. VariantsArray(list, text, deal) = [k \in DOMAIN list |-> entry(k)]
  BY DEF VariantsArray, entry
<1>4. VariantsArray(list, text, deal) \in [1..Len(list) -> Variant]
  BY <1>1, <1>2, <1>3
<1>5. VariantsArray(list, text, deal) \in Seq(Variant)
  BY <1>1, <1>4, SMTT(30)
<1> QED
  BY <1>1, <1>2, <1>3, <1>5

-----------------------------------------------------------------------------
(* The inductive invariant *)

\* FittingFormPublishes is inductive only with the row-to-cell half of
\* TypeOK: whether a row has a cell when it is read is a question of top and
\* cellOf.
IInv == TypeOK /\ VariantsNumbered /\ FittingFormPublishes

LEMMA InitIInv ==
  ASSUME Init
  PROVE  IInv
<1>1. LastTop(0) = 0
  BY VisibleAssumption DEF LastTop
<1>2. VisibleRows(0, 0) = {}
  BY DEF VisibleRows
<1>3. cellOf \in Injection(VisibleRows(Len(items), top), DOMAIN cells)
  BY <1>2 DEF Init, Injection, IsInjective
<1>4. /\ items \in Seq(Nat) /\ cells \in Seq(Texts)
      /\ published \in Seq(Seq(Variant))
      /\ Len(items) = 0 /\ top = 0
  BY DEF Init
<1>5. open \in BOOLEAN /\ crashed \in BOOLEAN
  BY Zenon DEF Init
<1>6. TypeOK
  BY <1>1, <1>3, <1>4, <1>5 DEF TypeOK
<1>7. VariantsNumbered /\ FittingFormPublishes
  BY DEF Init, VariantsNumbered, FittingFormPublishes
<1> QED
  BY <1>6, <1>7 DEF IInv

\* Publishing: the rows of a form that fits are all on screen when the table
\* was reloaded, so variantsArray gets past its guards.
LEMMA AddNewVoteIInv ==
  ASSUME IInv, AddNewVote
  PROVE  IInv'
<1> USE DEF IInv
<1>1. items \in Seq(Nat) /\ published \in Seq(Seq(Variant))
  BY DEF TypeOK
<1>2. /\ items' \in Seq(Nat) /\ Len(items') \in Nat
      /\ DOMAIN items' = 1..Len(items')
      /\ \A k \in DOMAIN items' : items'[k] = k
  BY <1>1, Renumbered DEF AddNewVote
<1>3. /\ cells' \in Seq(Texts)
      /\ top' \in 0..LastTop(Len(items'))
      /\ cellOf' \in Injection(VisibleRows(Len(items'), top'), DOMAIN cells')
  BY <1>2, ReloadFits DEF AddNewVote
<1>4. /\ cellOf' \in [VisibleRows(Len(items'), top') -> DOMAIN cells']
      /\ DOMAIN cellOf' = VisibleRows(Len(items'), top')
  BY <1>3 DEF Injection
<1>5. CASE /\ \A k \in DOMAIN items' : HasCell(items'[k], items', DOMAIN cellOf')
           /\ published' = Append(published, VariantsArray(items', cells', cellOf'))
           /\ open' = FALSE
           /\ UNCHANGED crashed
  <2> DEFINE new == VariantsArray(items', cells', cellOf')
  <2>1. /\ new \in Seq(Variant)
        /\ \A k \in DOMAIN new : new[k].variantId = k
    BY <1>2, <1>3, <1>4, <1>5, PublishedEntries
  <2> HIDE DEF new
  <2>2. published' = Append(published, new)
    BY <1>5 DEF new
  <2>3. published' \in Seq(Seq(Variant))
    BY <1>1, <2>1, <2>2
  <2>4. VariantsNumbered'
    BY <1>1, <2>1, <2>2 DEF VariantsNumbered
  <2>5. TypeOK'
    BY <1>2, <1>3, <1>5, <2>3 DEF TypeOK
  <2>6. ~crashed'
    BY <1>5 DEF AddNewVote
  <2> QED
    BY <2>4, <2>5, <2>6 DEF FittingFormPublishes
<1>6. CASE /\ \E k \in DOMAIN items' : ~HasCell(items'[k], items', DOMAIN cellOf')
           /\ crashed' = TRUE
           /\ UNCHANGED <<open, published>>
  <2>1. PICK k \in DOMAIN items' : ~HasCell(k, items', DOMAIN cellOf')
    BY <1>2, <1>6
  <2>2. ~ (top' < k /\ k <= top' + Visible)
    BY <1>2, <1>4, <2>1 DEF HasCell, VisibleRows
  <2>3. Len(items') > Visible
    BY <1>2, <1>3, <2>2, VisibleAssumption DEF LastTop
  <2>4. TypeOK'
    BY <1>2, <1>3, <1>6 DEF TypeOK
  <2>5. VariantsNumbered'
    BY <1>6 DEF VariantsNumbered
  <2> QED
    BY <2>3, <2>4, <2>5 DEF FittingFormPublishes
<1> QED
  BY <1>5, <1>6 DEF AddNewVote

LEMMA NextIInv ==
  ASSUME IInv, [Next]_vars
  PROVE  IInv'
<1> USE DEF IInv
<1>1. /\ items \in Seq(Nat) /\ Len(items) \in Nat
      /\ DOMAIN items = 1..Len(items)
  BY DEF TypeOK
<1>2. CASE ViewDidLoad
  <2>1. LastTop(0) = 0 /\ VisibleRows(0, 0) = {}
    BY VisibleAssumption DEF LastTop, VisibleRows
  <2>2. (cellOf \in Injection(VisibleRows(Len(items), top), DOMAIN cells))'
    BY <1>2, <2>1 DEF ViewDidLoad, Injection, IsInjective
  <2> QED
    BY <1>2, <2>1, <2>2
    DEF ViewDidLoad, TypeOK, VariantsNumbered, FittingFormPublishes
<1>3. CASE AddNewVarible
  <2>1. items' \in Seq(Nat) /\ Len(items') \in Nat
    BY <1>1, <1>3 DEF AddNewVarible
  <2>2. TypeOK'
    BY <1>3, <2>1, ReloadFits DEF AddNewVarible, TypeOK
  <2> QED
    BY <1>3, <2>2 DEF AddNewVarible, VariantsNumbered, FittingFormPublishes
<1>4. ASSUME NEW row \in DOMAIN cellOf, DeleteRow(row)
      PROVE  IInv'
  <2>1. row \in DOMAIN items
    BY <1>1 DEF TypeOK, Injection, VisibleRows
  <2>2. items' \in Seq(Nat) /\ Len(items') \in Nat
    BY <1>1, <1>4, <2>1, RemovedItems DEF DeleteRow
  <2>3. TypeOK'
    BY <1>4, <2>2, ReloadFits DEF DeleteRow, TypeOK
  <2> QED
    BY <1>4, <2>3 DEF DeleteRow, VariantsNumbered, FittingFormPublishes
<1>5. ASSUME NEW row \in DOMAIN cellOf, NEW text \in Texts, EditText(row, text)
      PROVE  IInv'
  <2>1. cells \in Seq(Texts) /\ cells' = [cells EXCEPT ![cellOf[row]] = text]
    BY <1>5 DEF EditText, TypeOK
  <2>2. cellOf[row] \in 1..Len(cells)
    BY <2>1 DEF TypeOK, Injection
  <2>3. cells' \in Seq(Texts) /\ DOMAIN cells' = DOMAIN cells
    BY <2>1, <2>2, ExceptSeq
  <2>4. TypeOK'
    BY <1>5, <2>3 DEF EditText, TypeOK
  <2> QED
    BY <1>5, <2>4 DEF EditText, VariantsNumbered, FittingFormPublishes
<1>6. ASSUME NEW t \in 0..LastTop(Len(items)), Scroll(t)
      PROVE  IInv'
  <2>1. t \in Nat
    OBVIOUS
  <2>2. Cardinality(VisibleRows(Len(items), t)) \in Nat
    BY <1>1, <2>1, RowsCounted
  <2>3. cells' \in Seq(Texts)
    BY <1>6, <2>2, PoolOfCells DEF Scroll, TypeOK
  <2>4. cellOf' \in Injection(VisibleRows(Len(items), t), DOMAIN cells')
    BY <1>6 DEF Scroll
  <2>5. TypeOK'
    BY <1>6, <2>3, <2>4 DEF Scroll, TypeOK
  <2> QED
    BY <1>6, <2>5 DEF Scroll, VariantsNumbered, FittingFormPublishes
<1>7. CASE AddNewVote
  BY <1>7, AddNewVoteIInv
<1>8. CASE Leave
  BY <1>8 DEF Leave, TypeOK, VariantsNumbered, FittingFormPublishes
<1>9. CASE UNCHANGED vars
  BY <1>9 DEF vars, TypeOK, VariantsNumbered, FittingFormPublishes
<1> QED
  BY <1>2, <1>3, <1>4, <1>5, <1>6, <1>7, <1>8, <1>9 DEF Next

LEMMA Invariance == Spec => []IInv
<1>1. Init => IInv
  BY InitIInv
<1>2. IInv /\ [Next]_vars => IInv'
  BY NextIInv
<1> QED
  BY <1>1, <1>2, PTL DEF Spec

-----------------------------------------------------------------------------
(* Theorems *)

\* Type correctness; in particular the visible rows have a cell each and no
\* two share one after any sequence of additions, deletions and scrolls.
THEOREM TypeCorrect == Spec => []TypeOK
<1>1. IInv => TypeOK
  BY DEF IInv
<1> QED
  BY <1>1, Invariance, PTL

\* variantsArray numbers the variants of every poll it publishes 1, 2, 3, ...,
\* whatever gaps and repetitions deleted rows have left in items.
THEOREM VariantsNumberedHolds == Spec => []VariantsNumbered
<1>1. IInv => VariantsNumbered
  BY DEF IInv
<1> QED
  BY <1>1, Invariance, PTL

\* A form whose rows fit on the screen never reaches the fatalError of
\* variantsArray, for every number of rows the screen has room for.
THEOREM FittingFormPublishesHolds == Spec => []FittingFormPublishes
<1>1. IInv => FittingFormPublishes
  BY DEF IInv
<1> QED
  BY <1>1, Invariance, PTL
=============================================================================
