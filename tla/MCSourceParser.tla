--------------------------- MODULE MCSourceParser ---------------------------
(* Texts of four kinds: types looked for through scopes and includes,      *)
(* constants looked for likewise, values of enumerators at the limits of   *)
(* their width, and members with their modifiers.                          *)
EXTENDS SourceParser

Plain == [sources |-> 1, types |-> {}, namespaces |-> {}, constants |-> {},
          literals |-> {}, underlyings |-> {}, modifiers |-> {}, depth |-> 0,
          elements |-> 6]

Modifier(kind, payload) == [kind |-> kind, payload |-> payload]
Pointer == Modifier("*", 0)
Array(extent) == Modifier("array", extent)

TypeLookup ==
  [Plain EXCEPT !.sources = 3, !.types = {"T"}, !.namespaces = {"T"}, !.depth = 2,
                !.modifiers = {<<>>}, !.elements = 8]
ConstantLookup ==
  [Plain EXCEPT !.sources = 3, !.namespaces = {"T"}, !.depth = 1,
                !.constants = {"a"}, !.literals = {1}, !.underlyings = {<<>>},
                !.elements = 7]
ConstantTypes == [ConstantLookup EXCEPT !.sources = 2, !.types = {"T"}]
Values ==
  [Plain EXCEPT !.constants = {"a", "b"}, !.literals = 0..4, !.underlyings = {<<>>},
                !.elements = 9]
Members ==
  [Plain EXCEPT !.types = {"T"}, !.elements = 6,
                !.underlyings = {<<>>, <<"unsigned", "long">>, <<"long", "int">>},
                !.modifiers = {<<>>, <<Pointer, Array(1)>>, <<Array(3), Array(2)>>,
                               <<Array(0)>>, <<Array(4)>>, <<Modifier("&", 0)>>,
                               <<Modifier("&", 0), Array(1)>>}]

MCMenus == {TypeLookup, ConstantLookup, ConstantTypes, Values, Members}
=============================================================================
