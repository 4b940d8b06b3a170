------------------------------ MODULE FeedStore ------------------------------
(***************************************************************************)
(* What the importer promises of the database: it holds no feed, or what   *)
(* one acceptable feed says, all of it, and passes from one to the next at *)
(* once (gtfs_import_service.py 6-9 and 122).                              *)
(***************************************************************************)
CONSTANTS
  Contents,   \* what each acceptable feed says
  Nothing     \* an empty database

VARIABLE content

Init == content = Nothing

Replace == content' \in Contents

Next == Replace

Spec == Init /\ [][Next]_content
=============================================================================
