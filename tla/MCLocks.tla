------------------------------ MODULE MCLocks ------------------------------
(* The reader-writer spinlock, and apart from it the other parts of        *)
(* CommonLib: a behaviour is one of the four.  No symmetry: the run checks *)
(* a liveness property.                                                    *)
EXTENDS RwSpinlock, Primitives, LinkedList, Strings, TLC

VARIABLE part

ListRank == ("a" :> 1) @@ ("b" :> 2) @@ ("c" :> 1)

\* Characters: a space, a slash, both ends of a line and two letters, one of
\* which is the other in lower case and is the command to exit.
Blank == 1
SlashChar == 2
LineEnds == {3, 4}
ExitCommand == <<25>>
WordPieces == <<2, 1>>
ModuleContents == BoundedSeq({1, 2, 3, 9}, 5) \union {<<2, 9, 4, 3, 2, 9, 1, 9>>, <<2, 9, 3, 4, 2, 1, 1, 9, 1>>,
   <<2, 1, 9, 3, 2, 9, 3, 2, 2>>, <<2, 2, 3, 2, 25, 1, 9, 3, 2, 9>>, <<2, 2, 4, 2, 1, 1, 9>>}
ShortTexts == BoundedSeq({1, 2, 9, 25}, 3)
Directive(n, d, f, a) == [next |-> n, digits |-> d, fill |-> f, arg |-> a]
SomeDirectives ==
  {Directive("char", 0, 1, <<9>>), Directive("s", 0, 1, <<9, 9>>), Directive("s", 3, 1, <<9>>),
   Directive("S", 1, 1, <<9, 2>>), Directive("S", 0, 1, <<9>>), Directive("S", 2, 1, <<2>>),
   Directive("d", 2, 5, itoa(3, FALSE, 10, FALSE)), Directive("q", 0, 1, <<>>),
   Directive("s", 0, 1, <<>>)}

MCInit ==
  /\ part \in {"rw", "primitives", "list", "strings"}
  /\ Init /\ PrimInit /\ InitializeListHead /\ StringInit
  /\ (part # "strings" => text = <<>> /\ hasModule)
MCNext ==
  /\ UNCHANGED part
  /\ \/ part = "rw" /\ Next /\ UNCHANGED <<primVars, listVars, stringVars>>
     \/ part = "primitives" /\ PrimNext /\ UNCHANGED <<vars, listVars, stringVars>>
     \/ part = "list" /\ ListNext /\ UNCHANGED <<vars, primVars, stringVars>>
     \/ part = "strings" /\ StringNext /\ UNCHANGED <<vars, primVars, listVars>>
MCSpec == MCInit /\ [][MCNext]_<<part, vars, primVars, listVars, stringVars>> /\ Fairness
=============================================================================
