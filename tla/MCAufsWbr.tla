------------------------------ MODULE MCAufsWbr ------------------------------
(* Three branches, and the entries and the space a branch has at first.    *)
EXTENDS AufsWbr, TLC

CONSTANTS o0, o1, o2

MCOld == 0 :> o0 @@ 1 :> o1 @@ 2 :> o2

L(g, d, f) == [g |-> g, d |-> d, f |-> f]

MCLayouts(b) ==
  {L("dir", "dir", "no"), L("dir", "dir", Old[b])}
    \cup (IF b = 0 THEN {L("dir", "no", "no"), L("dir", "opq", "no"), L("dir", "dir", "wh")} ELSE {})
    \cup (IF b = 1 THEN {L("dir", "wh", "no"), L("dir", "dir", "wh"), L("opq", "dir", "no")} ELSE {})
    \cup (IF b = 2 THEN {L("no", "no", "no"), L("dir", "wh", "no"), L("dir", "dir", "wh")} ELSE {})

MCFreeAtFirst == {0 :> 0 @@ 1 :> 0 @@ 2 :> 1}

MCFlags ==
  [ow : {FALSE}, ku : {FALSE}, roup : {FALSE}, to : {"rw", "any", "brid"}]
    \cup [ow : {TRUE}, ku : BOOLEAN, roup : {TRUE}, to : {"fhsm"}]
=============================================================================
