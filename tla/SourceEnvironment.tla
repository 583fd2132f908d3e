------------------------- MODULE SourceEnvironment -------------------------
(***************************************************************************)
(* What a Source exports to those that include it                          *)
(* (parser/source_environment.cpp, build_interface of                      *)
(* frontend/source_frontend_generation.cpp), and how a name is looked for. *)
(*                                                                         *)
(* A qualified name is the sequence of its parts; <<>> is the global       *)
(* scope.  An interface keeps its own bindings and pointers to the         *)
(* interfaces of what its Source includes, which have smaller source_ids   *)
(* here: a Source is parsed after all it includes.                         *)
(***************************************************************************)
EXTENDS Integers, Sequences, FiniteSetsExt

CONSTANT Width   \* bits of an integral_constant, 64 in the code

ASSUME SourceEnvironmentAssumption == Width \in Nat \ {0}

(* integral_constant: a type and its bits.  exact is auxiliary: the        *)
(* integer that the text stands for.                                       *)
Constant(type, bits, exact) == [type |-> type, bits |-> bits, exact |-> exact]

NotFound == [type |-> "none", bits |-> 0, exact |-> 0]

(* The number a constant denotes.                                          *)
Denotes(c) ==
  IF c.type = "signed" /\ c.bits >= 2^(Width - 1) THEN c.bits - 2^Width ELSE c.bits

SameConstant(c, d) == c.type = d.type /\ c.bits = d.bits

NoInterface == [constants |-> {}, types |-> {}, imports |-> <<>>]

(* source_environment_storage::initialize coalesces equal bindings of one  *)
(* scope and name, and rejects the interface when they differ.             *)
Conflict(constants, types) ==
  \/ \E b, c \in constants : /\ <<b.scope, b.name>> = <<c.scope, c.name>>
                             /\ ~SameConstant(b.value, c.value)
  \/ \E b, c \in types : /\ <<b.scope, b.name>> = <<c.scope, c.name>>
                         /\ b.canonical # c.canonical

(* build_interface: the constants of an unscoped enum belong to its        *)
(* namespace, those of a scoped one to the enum (and those of a scoped     *)
(* enum without a name to the global scope).                               *)
EnumConstants(fact, values) ==
  {[scope |-> IF fact.scoped THEN fact.canonical ELSE fact.scope,
    name |-> values[i].name, value |-> values[i].value] : i \in DOMAIN values}

TypeBinding(fact) ==
  [scope |-> fact.scope, name |-> fact.canonical[Len(fact.canonical)],
   canonical |-> fact.canonical]

(* The first of the Sources in a list where found says something.          *)
FirstIn(list, found, none) ==
  LET hits == {i \in DOMAIN list : found[list[i]] # none}
  IN IF hits = {} THEN none ELSE found[list[Min(hits)]]

(* find_constant_recursive, for every Source: its own binding before those *)
(* of its imports in their order.                                          *)
ConstantIn(interfaces, scope, name) ==
  LET find[s \in DOMAIN interfaces] ==
        LET own == {b \in interfaces[s].constants : b.scope = scope /\ b.name = name}
        IN IF own # {} THEN (CHOOSE b \in own : TRUE).value
           ELSE FirstIn(interfaces[s].imports, find, NotFound)
  IN find

(* find_type_recursive                                                     *)
TypeIn(interfaces, scope, name) ==
  LET find[s \in DOMAIN interfaces] ==
        LET own == {b \in interfaces[s].types : b.scope = scope /\ b.name = name}
        IN IF own # {} THEN (CHOOSE b \in own : TRUE).canonical
           ELSE FirstIn(interfaces[s].imports, find, <<>>)
  IN find

(* Mutant: an include counts for the whole Source.                         *)
VisibleAt_Everywhere(visibility, offset) ==
  [i \in DOMAIN visibility |-> visibility[i].source]

(* The positional imports that a name at the offset can see, in the order  *)
(* of the text.                                                            *)
VisibleAt(visibility, offset) ==
  LET seen == SelectSeq(visibility, LAMBDA v : v.visible_from <= offset)
  IN [i \in DOMAIN seen |-> seen[i].source]

(* source_environment::find_constant_exact, find_type_exact                *)
FindConstantExact(interfaces, visibility, scope, name, offset) ==
  FirstIn(VisibleAt(visibility, offset), ConstantIn(interfaces, scope, name), NotFound)

FindTypeExact(interfaces, visibility, scope, name, offset) ==
  FirstIn(VisibleAt(visibility, offset), TypeIn(interfaces, scope, name), <<>>)

(* The scopes a name in scope is looked for in, and the innermost of them  *)
(* where it is found.                                                      *)
Enclosing(scope) == {SubSeq(scope, 1, n) : n \in 0..Len(scope)}

Innermost(scopes) == CHOOSE s \in scopes : \A t \in scopes : Len(t) <= Len(s)
=============================================================================
