---------------------------- MODULE MCSanitized ----------------------------
(***************************************************************************)
(* Sanitized for TLC: small redzones around fields of one byte.            *)
(***************************************************************************)
EXTENDS Sanitized

(* struct { char }                                                         *)
Flat ==
  [size |-> 2 * RZ + 1, zones |-> {0, RZ + 1}, kept |-> {}, fields |-> {RZ},
   swept |-> 2 * RZ + 1]

(* struct { struct { char } }                                              *)
Nested ==
  [size |-> 4 * RZ + 1, zones |-> {0, 3 * RZ + 1}, kept |-> {RZ, 2 * RZ + 1},
   fields |-> {2 * RZ}, swept |-> 4 * RZ + 1]

(* An array of chars, as large as a Flat.                                  *)
Plain ==
  [size |-> 2 * RZ + 1, zones |-> {}, kept |-> {}, fields |-> 0 .. 2 * RZ, swept |-> 0]

NoShape == {}
FlatOnly == {Flat}
NestedOnly == {Nested}
FlatAndPlain == {Flat, Plain}

(* Kinds of programs.                                                      *)
Plainest == {{}}
Stacks == {{"libc"}, {"longjmp", "libc"}}
Heaps ==
  {{"libc"},
   {"leak", "realloc", "exhaust", "libc"},
   {"trace", "mislead", "leak"}}

=============================================================================
