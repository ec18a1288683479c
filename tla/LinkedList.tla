----------------------------- MODULE LinkedList -----------------------------
(***************************************************************************)
(* The doubly linked lists of CommonLib (list.c), which every component    *)
(* keeps its objects in and every other module has as a sequence.  A node  *)
(* is a list head or an entry; the links are the state, and the sequence   *)
(* each head stands for is kept beside them to be compared with what the   *)
(* code finds by following the links.  Callers keep the rules of the code: *)
(* an entry is in at most one list, and only entries of a list are taken   *)
(* out of it.                                                              *)
(***************************************************************************)
EXTENDS Integers, Sequences, SequencesExt

CONSTANTS
  ListHeads, ListEntries,
  Rank             \* what the compare functions order the entries by

VARIABLES
  Flink, Blink,
  contents         \* the sequence each head stands for, a ghost

listVars == <<Flink, Blink, contents>>

ASSUME ListAssumption ==
  /\ ListHeads \intersect ListEntries = {}
  /\ IsFiniteSet(ListEntries) /\ "NULL" \notin ListEntries

ListNodes == ListHeads \union ListEntries

\* InitializeListHead for every head; an entry that is in no list has links
\* nobody follows.
InitializeListHead ==
  /\ Flink = [n \in ListNodes |-> n]
  /\ Blink = [n \in ListNodes |-> n]
  /\ contents = [h \in ListHeads |-> <<>>]

\* The node at a place of a ring: the head before the first and behind the
\* last entry.
NodeAt(w, h, i) == IF i \in DOMAIN w THEN w[i] ELSE h

\* The entries met on the way from a head until the head is met again, in the
\* direction of a link.
Followed(link, h) ==
  CHOOSE w \in SeqOf(ListEntries, Cardinality(ListEntries)) :
    \A i \in 0 .. Len(w) : link[NodeAt(w, h, i)] = NodeAt(w, h, i + 1)
Forward(h) == Followed(Flink, h)

InNoList(e) == \A h \in ListHeads : ~Contains(contents[h], e)

(***************************************************************************)
(* The operations that change links.                                       *)
(***************************************************************************)

(* Mutant: the old last entry still leads to the head. *)
InsertBefore_NoFlink(n, e) ==
  LET before == Blink[n] IN
  /\ Flink' = [Flink EXCEPT ![e] = n]
  /\ Blink' = [Blink EXCEPT ![e] = before, ![n] = e]

\* InsertTailList with any node in the place of the head.
InsertBefore(n, e) ==
  LET before == Blink[n] IN
  /\ Flink' = [Flink EXCEPT ![e] = n, ![before] = e]
  /\ Blink' = [Blink EXCEPT ![e] = before, ![n] = e]

InsertTailList(h, e) ==
  /\ InNoList(e)
  /\ InsertBefore(h, e)
  /\ contents' = [contents EXCEPT ![h] = Append(@, e)]

InsertHeadList(h, e) ==
  LET after == Flink[h] IN
  /\ InNoList(e)
  /\ Flink' = [Flink EXCEPT ![e] = after, ![h] = e]
  /\ Blink' = [Blink EXCEPT ![e] = h, ![after] = e]
  /\ contents' = [contents EXCEPT ![h] = <<e>> \o @]

\* The first entry the new one is less than, or the head.
OrderedPlace(h, e) ==
  LET walk == Forward(h)
      i    == SelectInSeq(walk, LAMBDA x : Rank[e] < Rank[x])
  IN  IF i = 0 THEN h ELSE walk[i]

\* InsertOrderedList: behind the entries that compare as equal.
InsertOrderedList(h, e) ==
  /\ InNoList(e)
  /\ InsertBefore(OrderedPlace(h, e), e)
  /\ contents' = [contents EXCEPT ![h] =
       LET j == SelectInSeq(@, LAMBDA x : Rank[e] < Rank[x])
       IN  InsertAt(@, IF j = 0 THEN Len(@) + 1 ELSE j, e)]

\* RemoveEntryList; the entry keeps its own links.
RemoveEntryList(h, e) ==
  /\ Contains(contents[h], e)
  /\ Flink' = [Flink EXCEPT ![Blink[e]] = Flink[e]]
  /\ Blink' = [Blink EXCEPT ![Flink[e]] = Blink[e]]
  /\ contents' = [contents EXCEPT ![h] = RemoveFirst(@, e)]

\* RemoveHeadList and RemoveTailList; on an empty list they relink the head.
RemoveHeadList(h) ==
  LET e == Flink[h] IN
  /\ Flink' = [Flink EXCEPT ![h] = Flink[e]]
  /\ Blink' = [Blink EXCEPT ![Flink[e]] = h]
  /\ contents' = [contents EXCEPT ![h] = IF @ = <<>> THEN @ ELSE Tail(@)]

RemoveTailList(h) ==
  LET e == Blink[h] IN
  /\ Blink' = [Blink EXCEPT ![h] = Blink[e]]
  /\ Flink' = [Flink EXCEPT ![Blink[e]] = h]
  /\ contents' = [contents EXCEPT ![h] = IF @ = <<>> THEN @ ELSE Front(@)]

ListNext ==
  \E h \in ListHeads :
    \/ \E e \in ListEntries :
         InsertTailList(h, e) \/ InsertHeadList(h, e) \/ InsertOrderedList(h, e)
           \/ RemoveEntryList(h, e)
    \/ RemoveHeadList(h) \/ RemoveTailList(h)

(***************************************************************************)
(* The operations that read.                                               *)
(***************************************************************************)

\* What every operation asserts of the node it is given.
ValidateListEntry(n) == Blink[Flink[n]] = n /\ Flink[Blink[n]] = n

IsListEmpty(h) == Flink[h] = h
ListSize(h) == Len(Forward(h))
GetListElemByIndex(h, i) == IF i < Len(Forward(h)) THEN Forward(h)[i + 1] ELSE "NULL"

\* ListSearchForElement: the first entry that compares as equal.
ListSearchForElement(h, e) ==
  LET i == SelectInSeq(Forward(h), LAMBDA x : Rank[x] = Rank[e])
  IN  IF i = 0 THEN "NULL" ELSE Forward(h)[i]

\* ForEachElementExecute with AllMustSucceed and a function that fails for
\* fail: the entries it is called with.
ForEachElementExecute(h, fail) ==
  LET i == SelectInSeq(Forward(h), LAMBDA x : x = fail)
  IN  IF i = 0 THEN Forward(h) ELSE SubSeq(Forward(h), 1, i)

(***************************************************************************)
(* Properties.                                                             *)
(***************************************************************************)

\* After any sequence of the operations of list.c the links of a list, in
\* both directions, are the sequence it stands for, and what the reading
\* operations find is what the sequence says; no assertion on an entry fails.
ListsAreSequences ==
  \A h \in ListHeads :
    LET s == contents[h] IN
    /\ Forward(h) = s
    /\ Followed(Blink, h) = Reverse(s)
    /\ \A n \in {h} \union ToSet(s) : ValidateListEntry(n)
    /\ IsListEmpty(h) <=> s = <<>>
    /\ ListSize(h) = Len(s)
    /\ \A i \in 0 .. Len(s) :
         GetListElemByIndex(h, i) = IF i < Len(s) THEN s[i + 1] ELSE "NULL"
    /\ \A e \in ListEntries :
         /\ ListSearchForElement(h, e) = "NULL" <=> \A x \in ToSet(s) : Rank[x] # Rank[e]
         /\ Contains(s, e) => Last(ForEachElementExecute(h, e)) = e
=============================================================================
