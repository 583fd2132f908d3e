---------------------------- MODULE SourceParser ----------------------------
(***************************************************************************)
(* From the text of a Source to its facts: the directives discover finds   *)
(* and its scan of the braces (frontend/source_frontend_generation.cpp),   *)
(* the recursive descent over the other tokens (parser/parser.cpp), the    *)
(* facts it collects (parser/source_context.cpp), their capture            *)
(* (frontend/source_publisher.cpp) and the interface for the Sources that  *)
(* include it.  Sources are parsed one after the other; one may include    *)
(* those before it.                                                        *)
(*                                                                         *)
(* A text is a sequence of elements (a directive, the head of a            *)
(* declaration, an enumerator, an operand, a member, an end), each of      *)
(* which has an offset.  Where the directives are is known from discovery  *)
(* on; every other element is chosen when the parser gets to it, and any   *)
(* text that it does not accept there is Malformed.                        *)
(*                                                                         *)
(* exports, declared, written and resolution are auxiliary: they say what  *)
(* the text means when includes are replaced by what they name.            *)
(***************************************************************************)
EXTENDS SourceEnvironment, FiniteSets, SequencesExt

CONSTANTS
  Menus   \* what texts are made of, one of which is chosen initially:
          \* [sources (how many at most), types, namespaces, constants
          \*  (names), literals, underlyings (words after ":"), modifiers
          \*  (what is around the name of a member), and the bounds depth
          \*  (of namespaces) and elements (of all texts together)]

ASSUME SourceParserAssumption ==
  \A m \in Menus : /\ m.sources \in Nat \ {0}
                  /\ m.literals \subseteq Nat
                  /\ m.depth \in Nat
                  /\ m.elements \in Nat

VARIABLES
  menu,             \* the menu of this behaviour
  interfaces,       \* of the Sources parsed so far
  elements,         \* elements read of all texts
  visibility,       \* the include directives of the Source being parsed
  offset,           \* where the parser is in its text
  scan,             \* namespace_braces, namespace_depth, namespace_pending
  mode,             \* what the parser expects
  scope,            \* the open namespaces
  local_types,      \* types this Source declared
  local_constants,  \* enumerators of the enum being parsed
  next,             \* the value of an enumerator without an expression
  pending,          \* the enumerator being parsed
  fact,             \* the declaration being parsed
  context,          \* the source_context
  exports,          \* auxiliary: what a text with all it includes declares
  declared,         \* auxiliary: the same for the text up to here
  written,          \* auxiliary: the declarations of this text
  resolution        \* auxiliary: the last lookup and what it may have found

MaxElements == menu.elements

names == <<local_types, local_constants, next, pending, fact>>
aux == <<declared, written, resolution>>
vars == <<menu, interfaces, elements, visibility, offset, scan, mode, scope, names,
          context, exports, aux>>

NoScan == [braces |-> <<>>, depth |-> 0, open |-> FALSE]
NoContext == [enum_values |-> <<>>, enums |-> <<>>, aggregates |-> <<>>,
              members |-> <<>>, modifiers |-> <<>>]
NoFact == [canonical |-> <<>>]
NoName == [name |-> "", value |-> NotFound]
NothingDeclared == [types |-> {}, constants |-> {}, own |-> {}]
NothingWritten == [enums |-> <<>>, aggregates |-> <<>>]
NoResolution == [found |-> <<>>, allowed |-> {<<>>}]
Zero == Constant("signed", 0, 0)

(* parse_source_tokens begins with an empty context and no names.          *)
Fresh ==
  /\ visibility' = <<>>
  /\ offset' = 1
  /\ scan' = NoScan
  /\ scope' = <<>>
  /\ local_types' = {}
  /\ local_constants' = <<>>
  /\ next' = Zero
  /\ pending' = NoName
  /\ fact' = NoFact
  /\ context' = NoContext
  /\ declared' = NothingDeclared
  /\ written' = NothingWritten

Init ==
  /\ menu \in Menus
  /\ interfaces = <<>>
  /\ elements = 0
  /\ visibility = <<>>
  /\ offset = 1
  /\ scan = NoScan
  /\ mode = "begin"
  /\ scope = <<>>
  /\ local_types = {}
  /\ local_constants = <<>>
  /\ next = Zero
  /\ pending = NoName
  /\ fact = NoFact
  /\ context = NoContext
  /\ exports = <<>>
  /\ declared = NothingDeclared
  /\ written = NothingWritten
  /\ resolution = NoResolution

(* fail, fail_locked: the whole build is given up.                         *)
Fail ==
  /\ mode' = "failed"
  /\ Fresh
  /\ UNCHANGED <<interfaces, elements, exports>>

-----------------------------------------------------------------------------
(* scan_scopes of discover, which does not know the grammar: it tells the  *)
(* braces of namespaces from others by the keyword before them.            *)
ScanScopes(state, tokens) ==
  LET step(st, token) ==
        CASE token = "namespace" -> [st EXCEPT !.open = TRUE]
          [] token = "{" ->
               [braces |-> Append(st.braces, st.open), open |-> FALSE,
                depth |-> IF st.open THEN st.depth + 1 ELSE st.depth]
          [] token = "}" /\ st.braces # <<>> ->
               [braces |-> Front(st.braces), open |-> FALSE,
                depth |-> IF Last(st.braces) THEN st.depth - 1 ELSE st.depth]
          [] OTHER -> [st EXCEPT !.open = FALSE]
  IN FoldLeft(step, state, tokens)

(* An element with these braces and semicolons has been read.              *)
Read(tokens) ==
  /\ elements' = elements + 1
  /\ offset' = offset + 1
  /\ scan' = ScanScopes(scan, tokens)
  /\ UNCHANGED <<interfaces, visibility, exports>>

AtDirective == \E i \in DOMAIN visibility : visibility[i].visible_from = offset

(* The parser may read an element that is no directive.                    *)
Reads(modes) ==
  /\ mode \in modes
  /\ elements < MaxElements
  /\ ~AtDirective

(* discover has found the directives of the next Source: at most two.      *)
Discover ==
  LET parsed == DOMAIN interfaces
      include == [visible_from : 1..(MaxElements - elements), source : parsed]
  IN
  /\ mode = "begin"
  /\ Len(interfaces) < menu.sources
  /\ mode' = "unit"
  /\ \E found \in {<<>>} \cup {<<i>> : i \in include} \cup
                  {<<i, j>> : i \in include, j \in include} :
       /\ \A i, j \in DOMAIN found :
            i < j => found[i].visible_from < found[j].visible_from
       /\ visibility' = found
  /\ UNCHANGED <<interfaces, elements, offset, scan, scope, names, context,
                 exports, aux>>

(* An include directive.  It is refused inside of a namespace; its tokens  *)
(* are not scanned.                                                        *)
Directive ==
  LET here == CHOOSE i \in DOMAIN visibility : visibility[i].visible_from = offset
      included == exports[visibility[here].source]
  IN
  /\ mode \notin {"begin", "failed"}
  /\ elements < MaxElements
  /\ AtDirective
  /\ IF scan.depth # 0 THEN Fail /\ UNCHANGED resolution
     ELSE /\ declared' =
               [declared EXCEPT
                  !.types = @ \cup {scope \o t : t \in included.types},
                  !.constants = @ \cup {[c EXCEPT !.scope = scope \o @] :
                                           c \in included.constants}]
          /\ resolution' = [found |-> scope, allowed |-> {<<>>}]
          /\ elements' = elements + 1
          /\ offset' = offset + 1
          /\ UNCHANGED <<interfaces, visibility, scan, mode, scope, names, context,
                         exports, written>>

(* Anything else: a token the grammar does not allow here, a directive     *)
(* other than include, a character the lexer does not know.                *)
Malformed ==
  /\ mode \notin {"begin", "failed"}
  /\ Fail
  /\ UNCHANGED resolution

-----------------------------------------------------------------------------
(* store_qualified, register_local_type                                    *)
Declares(name) ==
  /\ local_types' = local_types \cup {Append(scope, name)}
  /\ declared' = [declared EXCEPT !.types = @ \cup {Append(scope, name)}]

(* lookup_type: from the current scope outwards, types of this Source      *)
(* before imported ones.                                                   *)
LookupType(name) ==
  LET at(s) == IF Append(s, name) \in local_types THEN Append(s, name)
               ELSE FindTypeExact(interfaces, visibility, s, name, offset)
      hits == {s \in Enclosing(scope) : at(s) # <<>>}
  IN IF hits = {} THEN <<>> ELSE at(Innermost(hits))

(* lookup_constant: the enum being parsed, then what is imported.          *)
LookupConstant(name) ==
  LET at(s) == FindConstantExact(interfaces, visibility, s, name, offset)
      hits == {s \in Enclosing(scope) : at(s) # NotFound}
  IN IF name \in DOMAIN local_constants THEN local_constants[name]
     ELSE IF hits = {} THEN NotFound ELSE at(Innermost(hits))

(* What a name means in the text with its includes replaced.  Constants of *)
(* other enums of the same Source are not in sight.                        *)
MeantTypes(name) ==
  LET hits == {s \in Enclosing(scope) : Append(s, name) \in declared.types}
  IN {IF hits = {} THEN <<>> ELSE Append(Innermost(hits), name)}

MeantConstants(name) ==
  LET in(s) == {c.value : c \in {c \in declared.constants :
                                   c.scope = s /\ c.name = name}}
      hits == {s \in Enclosing(scope) : in(s) # {}}
  IN IF name \in DOMAIN local_constants THEN {local_constants[name]}
     ELSE IF hits = {} THEN {NotFound} ELSE in(Innermost(hits))

(* parse_underlying                                                        *)
ParseUnderlying(words) ==
  CASE words = <<>> -> "none"
    [] words = <<"char">> -> "character"
    [] words = <<"short">> -> "short_integer"
    [] words = <<"int">> -> "integer"
    [] words = <<"long">> -> "long_integer"
    [] words = <<"long", "long">> -> "long_long_integer"
    [] words = <<"unsigned">> -> "unsigned_integer"
    [] words = <<"unsigned", "int">> -> "unsigned_integer"
    [] words = <<"unsigned", "char">> -> "unsigned_character"
    [] words = <<"unsigned", "short">> -> "unsigned_short_integer"
    [] words = <<"unsigned", "long">> -> "unsigned_long_integer"
    [] words = <<"unsigned", "long", "long">> -> "unsigned_long_long_integer"
    [] OTHER -> "invalid"

(* parse_enum up to the semicolon of an opaque enum or to the body, which  *)
(* forgets the enumerators of the enum before.                             *)
EnumHead(name, scoped, words, opaque) ==
  LET underlying == ParseUnderlying(words)
      anonymous == name = ""
      head == [kind |-> "enum", anonymous |-> anonymous, scoped |-> scoped,
               underlying |-> underlying, scope |-> scope,
               canonical |-> IF anonymous THEN <<>> ELSE Append(scope, name),
               opaque |-> opaque, first |-> Len(context.enum_values), count |-> 0]
  IN
  /\ Reads({"unit"})
  /\ IF \/ underlying = "invalid"
        \/ opaque /\ anonymous
        \/ opaque /\ ~scoped /\ underlying = "none"
     THEN Fail
     ELSE /\ Read(IF opaque THEN <<";">> ELSE <<"{">>)
          /\ IF anonymous THEN UNCHANGED <<local_types, declared>> ELSE Declares(name)
          /\ written' = [written EXCEPT !.enums = Append(@, <<>>)]
          /\ IF opaque
             THEN /\ context' = [context EXCEPT !.enums = Append(@, head)]
                  /\ UNCHANGED <<mode, fact, local_constants, next>>
             ELSE /\ mode' = "enum"
                  /\ fact' = head
                  /\ local_constants' = <<>>
                  /\ next' = Zero
                  /\ UNCHANGED context
          /\ UNCHANGED <<scope, pending>>
  /\ UNCHANGED resolution

-----------------------------------------------------------------------------
(* parse_number: a literal that does not fit its 64 bits is refused.       *)
ParseNumber(negative, literal) ==
  CASE literal > 2^Width - 1 -> NotFound
    [] negative /\ literal > 2^(Width - 1) -> NotFound
    [] negative /\ literal <= 2^(Width - 1) ->
         Constant("signed", (2^Width - literal) % 2^Width, -literal)
    [] OTHER -> Constant(IF literal <= 2^(Width - 1) - 1 THEN "signed" ELSE "unsigned",
                         literal, literal)

(* Mutant: the sum is only checked when both operands are signed.          *)
Plus_UnsignedWraps(left, right) ==
  LET exact == left.exact + right.exact
      sum == Denotes(left) + Denotes(right)
  IN
  IF left.type = "unsigned" \/ right.type = "unsigned"
  THEN Constant("unsigned", (left.bits + right.bits) % 2^Width, exact)
  ELSE IF sum > 2^(Width - 1) - 1 \/ sum < -(2^(Width - 1)) THEN NotFound
  ELSE Constant("signed", (sum + 2^Width) % 2^Width, exact)

(* A sum of parse_expression: unsigned when an operand is, and refused     *)
(* when it does not fit.                                                   *)
Plus(left, right) ==
  LET exact == left.exact + right.exact
      sum == Denotes(left) + Denotes(right)
  IN
  IF left.type = "unsigned" \/ right.type = "unsigned"
  THEN IF 2^Width - 1 - left.bits < right.bits THEN NotFound
       ELSE Constant("unsigned", left.bits + right.bits, exact)
  ELSE IF sum > 2^(Width - 1) - 1 \/ sum < -(2^(Width - 1)) THEN NotFound
  ELSE Constant("signed", (sum + 2^Width) % 2^Width, exact)

(* increment_constant                                                      *)
Incremented(c) ==
  IF \/ c.type = "unsigned" /\ c.bits = 2^Width - 1
     \/ c.type = "signed" /\ c.bits = 2^(Width - 1) - 1
  THEN NotFound
  ELSE Constant(c.type, (c.bits + 1) % 2^Width, c.exact + 1)

(* The enumerator is complete.  Only when another one follows is the next  *)
(* value computed, or the text refused: a comma before the closing brace   *)
(* does not count.                                                         *)
AddEnumerator(name, value, follow) ==
  LET after == Incremented(value) IN
  IF follow = "," /\ after = NotFound
  THEN Fail
  ELSE /\ Read(<<>>)
       /\ mode' = IF follow = "," THEN "enumerator" ELSE "closing"
       /\ local_constants' = [n \in DOMAIN local_constants \cup {name} |->
                                IF n = name THEN value ELSE local_constants[n]]
       /\ next' = IF follow = "," THEN after ELSE next
       /\ pending' = NoName
       /\ fact' = [fact EXCEPT !.count = @ + 1]
       /\ context' = [context EXCEPT
                        !.enum_values = Append(@, [name |-> name, value |-> value])]
       /\ written' = [written EXCEPT
                        !.enums[Len(written.enums)] = Append(@, <<name, value.exact>>)]
       /\ UNCHANGED <<scope, local_types, declared>>

(* The name of an enumerator, and what follows it: an expression, the next *)
(* enumerator or the end of the enum.                                      *)
Enumerator(name, follow) ==
  /\ Reads({"enum", "enumerator"})
  /\ IF name \in DOMAIN local_constants THEN Fail
     ELSE IF follow = "="
     THEN /\ Read(<<>>)
          /\ mode' = "operand"
          /\ pending' = [name |-> name, value |-> NotFound]
          /\ UNCHANGED <<scope, local_types, local_constants, next, fact,
                         context, declared, written>>
     ELSE AddEnumerator(name, next, follow)
  /\ UNCHANGED resolution

(* An operand has been read: it is the value so far, or added to it.       *)
AddOperand(operand, follow) ==
  LET value == IF pending.value = NotFound \/ operand = NotFound THEN operand
               ELSE Plus(pending.value, operand)
  IN IF value = NotFound THEN Fail
     ELSE IF follow = "+"
     THEN /\ Read(<<>>)
          /\ pending' = [pending EXCEPT !.value = value]
          /\ UNCHANGED <<mode, scope, local_types, local_constants, next, fact,
                         context, declared, written>>
     ELSE AddEnumerator(pending.name, value, follow)

(* parse_primary                                                           *)
Number(negative, literal, follow) ==
  /\ Reads({"operand"})
  /\ AddOperand(ParseNumber(negative, literal), follow)
  /\ UNCHANGED resolution

ConstantName(name, follow) ==
  /\ Reads({"operand"})
  /\ resolution' = [found |-> LookupConstant(name), allowed |-> MeantConstants(name)]
  /\ AddOperand(LookupConstant(name), follow)

(* The end of an enum: its fact is complete.                               *)
EndEnum ==
  /\ Reads({"enum", "closing"})
  /\ Read(<<"}", ";">>)
  /\ mode' = "unit"
  /\ context' = [context EXCEPT !.enums = Append(@, fact)]
  /\ fact' = NoFact
  /\ declared' = [declared EXCEPT
       !.own = @ \cup
         {[scope |-> IF fact.scoped THEN fact.canonical ELSE fact.scope,
           name |-> n, value |-> local_constants[n]] : n \in DOMAIN local_constants}]
  /\ UNCHANGED <<scope, local_types, local_constants, next, pending, written,
                 resolution>>

-----------------------------------------------------------------------------
(* parse_struct up to the semicolon of a declaration or to the body        *)
StructHead(name, defined) ==
  LET head == [kind |-> "struct", canonical |-> Append(scope, name),
               scope |-> scope, defined |-> defined,
               first |-> Len(context.members), count |-> 0]
  IN
  /\ Reads({"unit"})
  /\ Read(IF defined THEN <<"{">> ELSE <<";">>)
  /\ Declares(name)
  /\ written' = [written EXCEPT !.aggregates = Append(@, <<>>)]
  /\ IF defined
     THEN /\ mode' = "struct"
          /\ fact' = head
          /\ UNCHANGED context
     ELSE /\ context' = [context EXCEPT !.aggregates = Append(@, head)]
          /\ UNCHANGED <<mode, fact>>
  /\ UNCHANGED <<scope, local_constants, next, pending, resolution>>

(* The extents of an array are positive, fit 64 bits, and are not written  *)
(* after a reference.                                                      *)
ModifiersOK(modifiers) ==
  \A i \in DOMAIN modifiers :
    modifiers[i].kind = "array" =>
      /\ modifiers[i].payload \in 1..(2^Width - 1)
      /\ i > 1 => modifiers[i - 1].kind \notin {"&", "&&"}

(* Mutant: only the modifiers in front of the name are counted.            *)
MemberFact_NoArrays(type, modifiers) ==
  [type |-> type, first |-> Len(context.modifiers),
   count |-> Len(SelectSeq(modifiers, LAMBDA m : m.kind # "array"))]

MemberFact(type, modifiers) ==
  [type |-> type, first |-> Len(context.modifiers), count |-> Len(modifiers)]

(* One member; "int" is the only builtin type.                             *)
Member(name, modifiers) ==
  LET type == IF name = "int" THEN <<"int">> ELSE LookupType(name) IN
  /\ Reads({"struct"})
  /\ resolution' = IF name = "int" THEN resolution
                   ELSE [found |-> type, allowed |-> MeantTypes(name)]
  /\ IF type = <<>> \/ ~ModifiersOK(modifiers) THEN Fail
     ELSE /\ Read(<<";">>)
          /\ context' = [context EXCEPT
                           !.members = Append(@, MemberFact(type, modifiers)),
                           !.modifiers = @ \o modifiers]
          /\ fact' = [fact EXCEPT !.count = @ + 1]
          /\ written' = [written EXCEPT
               !.aggregates[Len(written.aggregates)] = Append(@, <<type, modifiers>>)]
          /\ UNCHANGED <<mode, scope, local_types, local_constants, next, pending,
                         declared>>

EndStruct ==
  /\ Reads({"struct"})
  /\ Read(<<"}", ";">>)
  /\ mode' = "unit"
  /\ context' = [context EXCEPT !.aggregates = Append(@, fact)]
  /\ fact' = NoFact
  /\ UNCHANGED <<scope, local_types, local_constants, next, pending, aux>>

(* parse_namespace                                                         *)
OpenNamespace(name) ==
  /\ Reads({"unit"})
  /\ Len(scope) < menu.depth
  /\ Read(<<"namespace", "{">>)
  /\ scope' = Append(scope, name)
  /\ UNCHANGED <<mode, names, context, aux>>

CloseNamespace ==
  /\ Reads({"unit"})
  /\ scope # <<>>
  /\ Read(<<"}">>)
  /\ scope' = Front(scope)
  /\ UNCHANGED <<mode, names, context, aux>>

-----------------------------------------------------------------------------
(* source_context::enumerators, members and modifiers: the part of the     *)
(* common list that belongs to a fact, or nothing when it is not there.    *)
Slice(list, part) ==
  IF part.count = 0 \/ part.first + part.count > Len(list) THEN <<>>
  ELSE SubSeq(list, part.first + 1, part.first + part.count)

(* capture_source_facts: facts become owned by the build entry.            *)
Captured ==
  LET values(e) == Slice(context.enum_values, e)
      members(a) == Slice(context.members, a)
  IN
  [enums |-> [i \in DOMAIN context.enums |->
     LET of == values(context.enums[i])
     IN [j \in DOMAIN of |-> <<of[j].name, Denotes(of[j].value)>>]],
   aggregates |-> [i \in DOMAIN context.aggregates |->
     LET of == members(context.aggregates[i])
     IN [j \in DOMAIN of |-> <<of[j].type, Slice(context.modifiers, of[j])>>]]]

(* build_interface                                                         *)
Interface ==
  [constants |-> UNION {EnumConstants(context.enums[i],
                                      Slice(context.enum_values, context.enums[i])) :
                        i \in DOMAIN context.enums},
   types |-> {TypeBinding(context.enums[i]) :
                i \in {i \in DOMAIN context.enums : ~context.enums[i].anonymous}}
             \cup {TypeBinding(context.aggregates[i]) : i \in DOMAIN context.aggregates},
   imports |-> FoldLeft(LAMBDA list, v : IF Contains(list, v.source) THEN list
                                         ELSE Append(list, v.source),
                        <<>>, visibility)]

(* The end of the text outside of every namespace: the interface is kept,  *)
(* the context reused for the next Source.                                 *)
EndOfSource ==
  /\ mode = "unit"
  /\ scope = <<>>
  /\ \A i \in DOMAIN visibility : visibility[i].visible_from < offset
  /\ IF Conflict(Interface.constants, Interface.types) THEN Fail
     ELSE /\ mode' = "begin"
          /\ interfaces' = Append(interfaces, Interface)
          /\ exports' = Append(exports, [types |-> declared.types,
                                         constants |-> declared.constants \cup declared.own])
          /\ Fresh
          /\ UNCHANGED elements
  /\ resolution' = NoResolution

Follow == {",", "}"}

Step ==
  \/ Discover
  \/ Directive
  \/ Malformed
  \/ \E name \in menu.types \cup {""}, scoped \in BOOLEAN,
        words \in menu.underlyings, opaque \in BOOLEAN :
       EnumHead(name, scoped, words, opaque)
  \/ \E name \in menu.constants, follow \in Follow \cup {"="} :
       Enumerator(name, follow)
  \/ \E negative \in BOOLEAN, literal \in menu.literals, follow \in Follow \cup {"+"} :
       Number(negative, literal, follow)
  \/ \E name \in menu.constants, follow \in Follow \cup {"+"} :
       ConstantName(name, follow)
  \/ EndEnum
  \/ \E name \in menu.types, defined \in BOOLEAN : StructHead(name, defined)
  \/ \E name \in menu.types \cup {"int"}, modifiers \in menu.modifiers :
       Member(name, modifiers)
  \/ EndStruct
  \/ \E name \in menu.namespaces : OpenNamespace(name)
  \/ CloseNamespace
  \/ EndOfSource

Next == Step /\ UNCHANGED menu

Spec == Init /\ [][Next]_vars

-----------------------------------------------------------------------------
(* A name is found exactly when, and as, the text says in which every      *)
(* include is replaced by what it names: visible from the include on,      *)
(* through any number of includes, the innermost scope first.  A constant  *)
(* that includes give several values is one of them.  And an include that  *)
(* is accepted stands outside of every namespace, as its Source is parsed. *)
NamesAsIncluded == resolution.found \in resolution.allowed

(* An accepted enumerator has the value its text denotes, whatever sums,   *)
(* increments and changes of sign led to it: no silent wrap-around.        *)
ValuesExact ==
  /\ \A i \in DOMAIN context.enum_values :
       Denotes(context.enum_values[i].value) = context.enum_values[i].value.exact
  /\ \A s \in DOMAIN interfaces : \A b \in interfaces[s].constants :
       Denotes(b.value) = b.value.exact

(* What is captured between two declarations is what was written: every    *)
(* enumerator, member and modifier belongs to its own declaration.         *)
SlicesExact == mode = "unit" => Captured = written

(* A type of an interface that another Source can find was declared where  *)
(* its name says, and one name of a scope has one constant.                *)
InterfacesExact ==
  \A s \in DOMAIN interfaces :
    /\ \A b \in interfaces[s].types : b.canonical = Append(b.scope, b.name)
    /\ {b.canonical : b \in interfaces[s].types} \subseteq exports[s].types
    /\ \A b, c \in interfaces[s].constants :
         b.scope = c.scope /\ b.name = c.name => b.value = c.value

(* What a Source hands on, to the publisher and to the Sources that        *)
(* include it, is what it declares.                                        *)
FactsExact == SlicesExact /\ InterfacesExact
=============================================================================
