-------------------------- MODULE MCDocumentForms --------------------------
(* Two collections, a document and the name of another, a form of two      *)
(* elements and a third name, which the registry lacks. Two sessions may   *)
(* be sent anything, a third one files, removes and starts over under them.*)
EXTENDS DocumentForms, TLC
CONSTANTS a, b, c

MCBase == {Collection("A"), Collection("B"), Document("d")}
MCSeeds ==
  {MCBase \cup {Filed("d", "A")},
   MCBase \cup {Filed("d", "B"), Node("d", "n"), Form("d"), Element("d", "x")}}

MCContents == {<<"n">>}
MCPayloads == {<<"x", "y">>, <<"z", "y", "x">>, <<"y", "z">>, <<"x">>}
Filing ==
  {CreateCollection("B"), UpdateCollection("A"), RemoveCollection("A"),
   CreateDocument("e", <<"n">>, "A"), UpdateDocument("d"), RemoveDocument("d"),
   CopyDocument("d", "e", TRUE, FALSE, None), CopyDocument("d", "e", FALSE, FALSE, "B"),
   MoveDocument("d", "A", "B"), MoveDocument("d", None, "A"), AddToCollection("d", "B")}
Nodes ==
  {CreateNode("d", "m", Node("d", "n")), CreateNode("e", "m", Node("d", "n")),
   UpdateNode("d", "n", FALSE), RemoveNode("d", "n")}
Submissions ==
  {SubmitForm("d", <<"x", "y">>, "submitted", FALSE), SubmitForm("d", <<"z", "y", "x">>, "draft", FALSE)}
Forms == Submissions \cup
  {InitializeForm("d", FALSE), InitializeForm("d", TRUE), UpdateForm("d", "submitted"),
   RemoveForm("d"), SubmitForm("d", <<"y", "z">>, "review", FALSE),
   SubmitForm("d", <<"x">>, "submitted", TRUE)}

MCMenu == a :> Filing \cup Nodes \cup Forms @@ b :> Filing \cup Nodes \cup Forms
          @@ c :> {InitializeForm("d", FALSE), RemoveForm("d"), CreateCollection("A"),
                   RemoveCollection("A"), AddToCollection("d", "B"), RemoveDocument("d")}

(* A document filed in both collections, moved both ways.                  *)
MCFiledTwice == {MCBase \cup {Filed("d", "A"), Filed("d", "B")}}
MCMoves == [s \in {a, b} |-> {MoveDocument("d", "A", "B"), MoveDocument("d", "B", "A")}]
=============================================================================
