------------------------ MODULE ConfigurationLoader ------------------------
(***************************************************************************)
(* The two configuration loaders: project_configuration_loader.cpp and     *)
(* server_configuration_loader.cpp over json_parser.cpp.                   *)
(*                                                                         *)
(* The parser walks a document and calls a handler for every brace, key    *)
(* and scalar; it builds no tree.  The handler keeps a stack of contexts,  *)
(* the key whose value is to come and the keys seen, and fills in the      *)
(* configuration as it goes; after its first failure it ignores the rest.  *)
(* The two handlers are one algorithm over two schemas.                    *)
(*                                                                         *)
(* A document is a JSON value whose scalars are strings; Texts are the     *)
(* nonempty ones that have no meaning of their own, Spelled says what path *)
(* one of them spells.                                                     *)
(***************************************************************************)
EXTENDS Naturals, SequencesExt

CONSTANTS
  Texts,       \* strings a name, an address or a path may be
  Spelled(_)   \* the path a text spells: [absolute, parts]

(* JSON values, with the calls the parser makes for them: parse_value,     *)
(* parse_object and parse_array.  Members are [key, value].                *)
Call(name, v) == [call |-> name, v |-> v]
Member(key, value) == [key |-> key, value |-> value]

Scalar(type, v) == [t |-> type, v |-> v, calls |-> <<Call(type, v)>>]

Object(members) ==
  [t |-> "object", items |-> members,
   calls |-> <<Call("object_begin", "")>>
             \o FlattenSeq([i \in DOMAIN members |->
                  <<Call("key", members[i].key)>> \o members[i].value.calls])
             \o <<Call("object_end", "")>>]

Array(elements) ==
  [t |-> "array", items |-> elements,
   calls |-> <<Call("array_begin", "")>>
             \o FlattenSeq([i \in DOMAIN elements |-> elements[i].calls])
             \o <<Call("array_end", "")>>]

-----------------------------------------------------------------------------
(* What a key of a context may be followed by: a scalar of one type, an    *)
(* object or an array with a context of its own.                           *)
Slot(type, admitted, to) == [t |-> type, admitted |-> admitted, to |-> to]
Text == Slot("string", Texts, "none")
OneOf(values) == Slot("string", values, "none")
Whole(values) == Slot("integer", values, "none")
Flag == Slot("boolean", {"true", "false"}, "none")
Opens(context) == Slot("object", {}, context)
Lists(context) == Slot("array", {}, context)

(* Integers a uint32_t holds; another is "huge".                           *)
Current == "1"
Versions == {"0", Current, "2"}
Packs == {"1", "2", "4", "8", "16"}
Ports == {"1", "80", "65535"}

(* identify, seen_mask, validate_required, object_context, array_begin of  *)
(* the Project's handler: every key a context knows is required.           *)
ProjectSchema ==
  [list |-> "items", element |-> "item", unique |-> FALSE,
   fields |->
     [root |-> [version |-> Whole(Versions), name |-> Text,
                project |-> Lists("items"), configuration |-> Opens("configuration")],
      item |-> [path |-> Text, role |-> OneOf({"type", "source", "project"})],
      configuration |-> [abi |-> Opens("abi")],
      abi |-> [target |-> OneOf({"windows-x64", "posix-x64"}), pack |-> Whole(Packs)]]]

(* The same of the Server's handler; the names of endpoints are unique.    *)
ServerSchema ==
  [list |-> "endpoints", element |-> "endpoint", unique |-> TRUE,
   fields |->
     [root |-> [version |-> Whole(Versions), server |-> Opens("communication"),
                logging |-> Opens("logging"), telemetry |-> Opens("telemetry"),
                project |-> Opens("project")],
      communication |-> [endpoints |-> Lists("endpoints"), console |-> Flag],
      endpoint |-> [name |-> Text, transport |-> OneOf({"tcp"}), protocol |-> OneOf({"json"}),
                    address |-> Text, port |-> Whole(Ports)],
      logging |-> [level |-> OneOf({"trace", "debug", "info", "warning", "error",
                                    "critical"}), console |-> Flag],
      telemetry |-> [metrics |-> Flag],
      project |-> [path |-> Text]]]

-----------------------------------------------------------------------------
MaxDepth == 16   \* the size of the handler's stack

Contexts(S) == DOMAIN S.fields

(* A new handler.                                                          *)
Handler(S) ==
  [stack |-> <<>>, pending |-> "none", failure |-> "none", root_object |-> FALSE,
   seen |-> [c \in Contexts(S) |-> {}],
   values |-> [c \in Contexts(S) |-> <<>>],
   rows |-> <<>>]

Context(h) == IF h.stack = <<>> THEN "invalid" ELSE Last(h.stack)
Fail(h, code) == [h EXCEPT !.failure = code]
Stopped(h) == h.failure # "none"

(* The slot of the key whose value is to come.                             *)
Expected(S, h) ==
  IF h.pending = "none" THEN Slot("nothing", {}, "invalid")
  ELSE S.fields[Context(h)][h.pending]

(* push, with consume_pending of the caller.                               *)
Push(h, context) ==
  IF Len(h.stack) = MaxDepth THEN Fail(h, "nesting_too_deep")
  ELSE [h EXCEPT !.stack = Append(@, context), !.pending = "none"]

(* Mutant: what was seen of the previous element is kept.                  *)
NewElement_SeenKept(S, h) == [h EXCEPT !.values[S.element] = <<>>]

(* A new element: item = {}, item_seen = 0.                                *)
NewElement(S, h) ==
  [h EXCEPT !.seen[S.element] = {}, !.values[S.element] = <<>>]

ObjectBegin(S, h) ==
  IF Stopped(h) THEN h
  ELSE IF h.stack = <<>> THEN Push([h EXCEPT !.root_object = TRUE], "root")
  ELSE IF Context(h) = S.list THEN NewElement(S, Push(h, S.element))
  ELSE IF Expected(S, h).t = "object" THEN Push(h, Expected(S, h).to)
  ELSE Fail(h, "wrong_field_type")

(* finish_endpoint, or push_back of an item.                               *)
FinishElement(S, h) ==
  LET element == h.values[S.element] IN
  IF S.unique /\ \E i \in DOMAIN h.rows : h.rows[i].name = element.name
  THEN Fail(h, "duplicate_endpoint_name")
  ELSE [h EXCEPT !.rows = Append(@, element), !.stack = Front(@)]

ObjectEnd(S, h) ==
  LET ending == Context(h) IN
  IF Stopped(h) THEN h
  ELSE IF h.stack = <<>> THEN Fail(h, "wrong_field_type")
  ELSE IF h.seen[ending] # DOMAIN S.fields[ending]
       THEN Fail(h, "missing_required_field")
  ELSE IF ending = S.element THEN FinishElement(S, h)
  ELSE [h EXCEPT !.stack = Front(@)]

ArrayBegin(S, h) ==
  IF Stopped(h) THEN h
  ELSE IF h.stack = <<>> THEN Fail(h, "wrong_root_type")
  ELSE IF Expected(S, h).t = "array" THEN Push(h, Expected(S, h).to)
  ELSE Fail(h, "wrong_field_type")

ArrayEnd(S, h) ==
  IF Stopped(h) THEN h
  ELSE IF Context(h) = S.list THEN [h EXCEPT !.stack = Front(@)]
  ELSE Fail(h, "wrong_field_type")

Key(S, h, name) ==
  IF Stopped(h) THEN h
  ELSE IF h.stack = <<>> THEN Fail(h, "wrong_field_type")
  ELSE IF name \notin DOMAIN S.fields[Context(h)] THEN Fail(h, "unknown_property")
  ELSE IF name \in h.seen[Context(h)] THEN Fail(h, "duplicate_property")
  ELSE [h EXCEPT !.pending = name, !.seen[Context(h)] = @ \cup {name}]

(* string, integer, boolean, number and null: a value of the type and of   *)
(* the range that the pending key has, stored where it belongs.            *)
TakeScalar(S, h, type, v) ==
  IF Stopped(h) THEN h
  ELSE IF h.stack = <<>> THEN Fail(h, "wrong_root_type")
  ELSE IF Expected(S, h).t # type THEN Fail(h, "wrong_field_type")
  ELSE IF v \notin Expected(S, h).admitted THEN Fail(h, "invalid_value")
  ELSE [h EXCEPT !.values[Context(h)] = (h.pending :> v) @@ @, !.pending = "none"]

Handle(S, h, c) ==
  CASE c.call = "object_begin" -> ObjectBegin(S, h)
    [] c.call = "object_end" -> ObjectEnd(S, h)
    [] c.call = "array_begin" -> ArrayBegin(S, h)
    [] c.call = "array_end" -> ArrayEnd(S, h)
    [] c.call = "key" -> Key(S, h, c.v)
    [] OTHER -> TakeScalar(S, h, c.call, c.v)

(* The handler after all calls.                                            *)
Parsed(S, calls) ==
  LET after[i \in 0..Len(calls)] ==
        IF i = 0 THEN Handler(S) ELSE Handle(S, after[i - 1], calls[i])
  IN after[Len(calls)]

-----------------------------------------------------------------------------
(* lexically_normal of an absolute path.                                   *)
LexicallyNormal(parts) ==
  FoldLeft(LAMBDA path, part :
             CASE part = "." -> path
               [] part = ".." -> IF path = <<>> THEN path ELSE Front(path)
               [] OTHER -> Append(path, part),
           <<>>, parts)

(* A path written in the configuration file at the path given.             *)
Resolve(configuration, text) ==
  LET path == Spelled(text) IN
  LexicallyNormal(IF path.absolute THEN path.parts
                  ELSE Front(LexicallyNormal(configuration)) \o path.parts)

(* What a loader returns: output is replaced only with ok.                 *)
Refused(status) == [status |-> status, rows |-> <<>>, values |-> <<>>]

(* load_project_configuration_file and load_server_configuration_file as   *)
(* far as they agree.  A file that cannot be opened, a text that is not    *)
(* JSON (whatever the handler has seen of it), a document that is not of   *)
(* the schema, and one of another version are refused.                     *)
Load(S, file) ==
  LET h == Parsed(S, file.document.calls) IN
  IF ~file.readable THEN Refused("read_failed")
  ELSE IF ~file.json THEN Refused("invalid_json")
  ELSE IF ~h.root_object \/ Stopped(h) \/ h.stack # <<>>
       THEN Refused("invalid_configuration")
  ELSE IF h.values.root.version # Current THEN Refused("unsupported_version")
  ELSE [status |-> "ok", rows |-> h.rows, values |-> h.values]

(* The items of a Project, with their paths resolved.                      *)
LoadProjectConfiguration(file, path) ==
  LET loaded == Load(ProjectSchema, file) IN
  [loaded EXCEPT !.rows = [i \in DOMAIN @ |->
     [path |-> Resolve(path, @[i].path), role |-> @[i].role]]]

(* The Project of a Server.                                                *)
LoadServerConfiguration(file, path) ==
  LET loaded == Load(ServerSchema, file) IN
  [status |-> loaded.status,
   project |-> IF loaded.status = "ok" THEN Resolve(path, loaded.values.project.path)
               ELSE <<>>]
=============================================================================
