-------------------------- MODULE MCLibraryWrapper --------------------------
(***************************************************************************)
(* LibraryWrapper for TLC: structs of two bytes, redzones of one.          *)
(***************************************************************************)
EXTENDS LibraryWrapper

Field(at, len, inflated, room, home) ==
  [at |-> at, len |-> len, inflated |-> inflated, room |-> room,
   home |-> [k \in 0 .. len - 1 |-> home[k + 1]]]

(* struct { char; char }                                                   *)
Flat == [size |-> 5, fields |-> {Field(0, 1, 1, 1, <<0>>), Field(1, 1, 3, 1, <<0>>)}]

(* struct { char[2] }, as wide as WidthModulus                             *)
OneWide == [size |-> 4, fields |-> {Field(0, 2, 1, 2, <<0, 1>>)}]

(* struct { struct { char; char } }                                        *)
Nested == [size |-> 7, fields |-> {Field(0, 2, 1, 5, <<1, 3>>)}]

AllLayouts == {Flat, OneWide, Nested}
NestedOnly == {Nested}

=============================================================================
