--------------------------- MODULE MCAlertPipeline ---------------------------
(* Instance of AlertPipeline for TLC. *)
EXTENDS AlertPipeline

CONSTANTS c1, c2, here, there

Boots(i) == [cls |-> "boot", sure |-> TRUE, on |-> {i}, low |-> TRUE]
Vests(is) == [cls |-> "vest", sure |-> TRUE, on |-> is, low |-> FALSE]

\* One person without helmet outside the zone; or two, the second of whom
\* is inside and lacks the vest too.
MCScenes ==
  { [persons |-> <<[place |-> there, sure |-> TRUE]>>,
     items |-> {Vests({1}), Boots(1)}, poses |-> <<>>],
    [persons |-> <<[place |-> there, sure |-> FALSE], [place |-> here, sure |-> TRUE]>>,
     items |-> {Boots(2)}, poses |-> <<TRUE, TRUE>>] }

MCAreas == {{here}}
MCResults == [c \in Cameras |-> IF c = c1 THEN 2 ELSE 1]
MCPuts == [c \in Cameras |-> IF c = c1 THEN 1 ELSE 0]
=============================================================================
