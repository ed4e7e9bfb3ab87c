--------------------------- MODULE MCStructLayout ---------------------------
(* StructLayout for TLC: all structs of one or two fields over a few types,*)
(* two levels of nesting, and the struct types of the tests.               *)
EXTENDS StructLayout

Flats == {StructType(<<IntType(4)>>), StructType(<<IntType(1), IntType(4)>>)}

Inner(structs) ==
  {IntType(1), IntType(4), ArrayType(3, IntType(1))} \cup structs

Pairs(types) == {StructType(<<a>>) : a \in types} \cup
                {StructType(<<a, b>>) : a, b \in types}

Nesteds == Pairs(Inner(Flats \cup {StructType(<<IntType(1), s>>) : s \in Flats}))

Arrays ==
  Pairs(Inner({ArrayType(n, s) : n \in 1 .. 2, s \in Flats} \cup
              {ArrayType(2, ArrayType(2, s)) : s \in Flats}))

AllStructs == Nesteds \cup Arrays

(* struct Simple and struct Nested of test/src/toy.nested.arr.safe.c       *)
Simple ==
  StructType(<<IntType(4), ArrayType(2, IntType(1)), ArrayType(3, IntType(1)), IntType(1)>>)

ToyNestedArr == {StructType(<<IntType(4), ArrayType(1, Simple)>>)}

=============================================================================
