---------------------------- MODULE InventoryFiles ----------------------------
(* What a cache file of ops/ansible/ec2.py can be, besides the book of one *)
(* process.  open(.., 'w') empties a file, write and close fill it; there  *)
(* is no lock and no rename.                                               *)

Absent == [file |-> "absent"]
\* Emptied, or filled in part, and written by nobody else since.
Begun == [file |-> "begun"]
\* The texts of two writers mixed.
Torn == [file |-> "torn"]

Readable(file) == file \notin {Absent, Begun, Torn}

\* Over what another process filled meanwhile, the end of the longer text stays.
Filled(file, text) == IF file = Begun THEN {text} ELSE {text, Torn}
=============================================================================
