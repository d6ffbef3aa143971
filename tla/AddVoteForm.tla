---------------------------- MODULE AddVoteForm ----------------------------
(***************************************************************************)
(* Composing a new poll: AddVoteView and AddVoteViewModel.                 *)
(*                                                                         *)
(* The names of the variants are kept nowhere but in the text views of the *)
(* table's cells.  items only counts the rows; every change of it reloads  *)
(* the table, which takes its cells from a pool and never clears them, so  *)
(* the model keeps the cells apart from the rows they are dealt to.        *)
(***************************************************************************)
EXTENDS Integers, Sequences, FiniteSets, Functions

CONSTANTS
    Texts,      \* what can be typed into a row
    Blank,      \* the text of a new cell
    Visible,    \* number of rows the table has room for
    MaxRows,    \* bound: rows of a form
    MaxPolls    \* bound: polls published

ASSUME BlankAssumption   == Blank \in Texts
ASSUME VisibleAssumption == Visible \in Nat \ {0}
ASSUME BoundsAssumption  == MaxRows \in Nat /\ MaxPolls \in Nat

VARIABLES
    open,       \* whether the form is on screen
    items,      \* AddVoteViewModel.items; AddVoteView.items always equals it
    cells,      \* the cells created so far, each with the text in it
    cellOf,     \* the cell of every visible row
    top,        \* number of rows scrolled off above
    published,  \* the voteVariants of every document written, oldest first
    crashed     \* a fatalError or an index out of range ended the app

vars == <<open, items, cells, cellOf, top, published, crashed>>

Variant == [variantId : Nat, variantName : Texts, variantVoteStatus : {0}]

-----------------------------------------------------------------------------
(* The table *)

VisibleRows(n, t) == {r \in 1..n : t < r /\ r <= t + Visible}

LastTop(n) == IF n > Visible THEN n - Visible ELSE 0

\* The pool gives any cell that is free, and a new one only when none is.
Enough(n) == [c \in 1..(IF Len(cells) < n THEN n ELSE Len(cells)) |->
                IF c <= Len(cells) THEN cells[c] ELSE Blank]

\* reloadData: every visible row gets a cell again, in an order that is not
\* ours to know.
ReloadData(n) ==
    /\ top' = IF top <= LastTop(n) THEN top ELSE LastTop(n)
    /\ cells' = Enough(Cardinality(VisibleRows(n, top')))
    /\ cellOf' \in Injection(VisibleRows(n, top'), DOMAIN cells')

-----------------------------------------------------------------------------
Init ==
    /\ open = FALSE
    /\ items = <<>>
    /\ cells = <<>>
    /\ cellOf = <<>>
    /\ top = 0
    /\ published = <<>>
    /\ crashed = FALSE

\* viewDidLoad of a new AddVoteView, with its own view model.
ViewDidLoad ==
    /\ ~open /\ ~crashed
    /\ Len(published) < MaxPolls
    /\ open' = TRUE
    /\ items' = <<>>
    /\ cells' = <<>>
    /\ cellOf' = <<>>
    /\ top' = 0
    /\ UNCHANGED <<published, crashed>>

\* Mutant: the new row is not announced to the table.
AddSilently ==
    /\ open /\ ~crashed
    /\ Len(items) < MaxRows
    /\ items' = Append(items, Len(items) + 1)
    /\ UNCHANGED <<open, cells, cellOf, top, published, crashed>>

AddNewVarible ==
    /\ open /\ ~crashed
    /\ Len(items) < MaxRows
    /\ items' = Append(items, Len(items) + 1)
    /\ ReloadData(Len(items'))
    /\ UNCHANGED <<open, published, crashed>>

\* The rows below move up; their numbers in items do not change yet.
RemoveItem(list, row) ==
    [k \in 1..(Len(list) - 1) |-> IF k < row THEN list[k] ELSE list[k + 1]]

\* commit editing: items is shortened, the table reloaded, the row animated out.
DeleteRow(row) ==
    /\ open /\ ~crashed
    /\ items' = RemoveItem(items, row)
    /\ ReloadData(Len(items'))
    /\ UNCHANGED <<open, published, crashed>>

\* The administrator types into a cell; no delegate tells the view model.
EditText(row, text) ==
    /\ open /\ ~crashed
    /\ cells' = [cells EXCEPT ![cellOf[row]] = text]
    /\ UNCHANGED <<open, items, cellOf, top, published, crashed>>

\* Rows that stay visible keep their cells, the others are dealt new ones.
Scroll(t) ==
    /\ open /\ ~crashed
    /\ top' = t
    /\ cells' = Enough(Cardinality(VisibleRows(Len(items), t)))
    /\ \E deal \in Injection(VisibleRows(Len(items), t), DOMAIN cells') :
         /\ \A r \in DOMAIN deal \cap DOMAIN cellOf : deal[r] = cellOf[r]
         /\ cellOf' = deal
    /\ UNCHANGED <<open, items, published, crashed>>

\* Mutant: the loop that numbers the rows again left out.
KeepNumbers(list) == list

\* The first loop of variantsArray.
Renumber(list) == [k \in DOMAIN list |-> k]

\* Mutant: IndexPath(row: index) in the place of index - 1.
HasNextCell(row, list, shown) == row \in DOMAIN list /\ row + 1 \in shown

\* guard let cell = table.cellForRow(...) passes, and items[index - 1] exists.
HasCell(row, list, shown) == row \in DOMAIN list /\ row \in shown

\* The second loop of variantsArray: index is an element of items, used as a
\* row of the table and as a position of items.
VariantsArray(list, text, deal) ==
    [k \in DOMAIN list |-> [variantId |-> list[list[k]],
                            variantName |-> text[deal[list[k]]],
                            variantVoteStatus |-> 0]]

\* The rows are renumbered and the table reloaded before its cells are read.
\* A row without a cell ends the app, before anything is written.
AddNewVote ==
    /\ open /\ ~crashed
    /\ items' = Renumber(items)
    /\ ReloadData(Len(items'))
    /\ \/ /\ \A k \in DOMAIN items' : HasCell(items'[k], items', DOMAIN cellOf')
          /\ published' = Append(published, VariantsArray(items', cells', cellOf'))
          /\ open' = FALSE
          /\ UNCHANGED crashed
       \/ /\ \E k \in DOMAIN items' : ~HasCell(items'[k], items', DOMAIN cellOf')
          /\ crashed' = TRUE
          /\ UNCHANGED <<open, published>>

\* The back button.
Leave ==
    /\ open /\ ~crashed
    /\ open' = FALSE
    /\ UNCHANGED <<items, cells, cellOf, top, published, crashed>>

Next ==
    \/ ViewDidLoad
    \/ AddNewVarible
    \/ \E row \in DOMAIN cellOf : DeleteRow(row)
    \/ \E row \in DOMAIN cellOf, text \in Texts : EditText(row, text)
    \/ \E t \in 0..LastTop(Len(items)) : Scroll(t)
    \/ AddNewVote
    \/ Leave

Spec == Init /\ [][Next]_vars

-----------------------------------------------------------------------------
(* Properties *)

\* Type invariant; the visible rows, and no others, have a cell each, and no
\* two rows share one.
TypeOK ==
    /\ open \in BOOLEAN
    /\ items \in Seq(Nat)
    /\ cells \in Seq(Texts)
    /\ cellOf \in Injection(VisibleRows(Len(items), top), DOMAIN cells)
    /\ top \in 0..LastTop(Len(items))
    /\ published \in Seq(Seq(Variant))
    /\ crashed \in BOOLEAN

\* Every published poll numbers its variants 1, 2, 3, ... without a gap or a
\* repetition, although deleting rows leaves both in items.
VariantsNumbered ==
    \A n \in DOMAIN published : \A k \in DOMAIN published[n] :
        published[n][k].variantId = k

\* A form all of whose rows fit on the screen can always be published, in
\* whatever order rows were added, deleted and scrolled.
FittingFormPublishes == crashed => Len(items) > Visible

\* variantsArray: guard let cell = table.cellForRow(at:) else
\* { fatalError("Error Cell convert") } says every row of the form has a cell.
EveryRowHasCell == ~crashed
=============================================================================
