-------------------------- MODULE MCCanonicalGraph --------------------------
(* Model-checking instances of CanonicalGraph: two Sources and two names,  *)
(* with the fact menus of the runs.                                        *)
EXTENDS CompiledCheckpoint

Aggregate(n, defined, members) ==
  [kind |-> "aggregate", name |-> n, defined |-> defined,
   members |-> members, flavour |-> "none"]
Enum(n, defined, f) ==
  [kind |-> "enum", name |-> n, defined |-> defined,
   members |-> {}, flavour |-> f]
Anonymous(f) ==
  [kind |-> "anonymous", name |-> 0, defined |-> TRUE,
   members |-> {}, flavour |-> f]

(* struct 1;  struct 1 { 2 };  struct 2 { 1* }.                           *)
NamedFacts ==
  {Aggregate(1, FALSE, {}), Aggregate(1, TRUE, {2}), Aggregate(2, TRUE, {1})}

(* struct 1 { 2 };  enum class 2 : f;  enum class 2 : f { ... };           *)
(* enum class 2 : g.                                                       *)
EnumFacts ==
  {Aggregate(1, TRUE, {2}), Enum(2, FALSE, "f"), Enum(2, TRUE, "f"),
   Enum(2, FALSE, "g")}

(* enum class 2 : f { ... };  enum { ... }.                               *)
AnonymousFacts == {Enum(2, TRUE, "f"), Anonymous("f")}

(* Named types through rebuilds and incremental updates; anonymous types   *)
(* through incremental updates.                                            *)
NamedUsage == {[facts |-> NamedFacts, modes |-> {"rebuild", "incremental"}]}
MCUsages ==
  NamedUsage \cup
  {[facts |-> EnumFacts, modes |-> {"rebuild", "incremental"}],
   [facts |-> AnonymousFacts, modes |-> {"incremental"}]}
AnonymousUsage ==
  {[facts |-> AnonymousFacts, modes |-> {"rebuild", "incremental"}]}
=============================================================================
