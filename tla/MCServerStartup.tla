-------------------------- MODULE MCServerStartup --------------------------
(* Three Projects in nested and parallel directories, documents that are   *)
(* right or have one thing wrong, and what a reader takes them to say.     *)
EXTENDS ServerStartup

MCPathOf == <<<<"a", "project">>, <<"a", "b", "project">>, <<"c", "project">>>>
MCServerPath == <<"a", "b", ".", "..", "server">>

Relative(parts) == [absolute |-> FALSE, parts |-> parts]
Absolute(parts) == [absolute |-> TRUE, parts |-> parts]

Paths ==
  "project" :> Relative(<<"project">>)
  @@ "./project" :> Relative(<<".", "project">>)
  @@ "../project" :> Relative(<<"..", "project">>)
  @@ "b/project" :> Relative(<<"b", "project">>)
  @@ "../b/project" :> Relative(<<"..", "b", "project">>)
  @@ "../a/project" :> Relative(<<"..", "a", "project">>)
  @@ "../a/b/project" :> Relative(<<"..", "a", "b", "project">>)
  @@ "../c/project" :> Relative(<<"..", "c", "project">>)
  @@ "../../c/project" :> Relative(<<"..", "..", "c", "project">>)
  @@ "/a/project" :> Absolute(<<"a", "project">>)
  @@ "/c/project" :> Absolute(<<"c", "project">>)
  @@ "/c/../a/b/./project" :> Absolute(<<"c", "..", "a", "b", ".", "project">>)
  @@ "x" :> Relative(<<"x">>)

MCSpelled(text) == Paths[text]
MCTexts == DOMAIN Paths

(* Two ways in which the file of a Project may refer to another one; the   *)
(* parent directory of the root is the root.                               *)
SpellingsOf(p) ==
  CASE p = 1 -> <<<<"project", "./project">>, <<"b/project", "/c/../a/b/./project">>,
                  <<"../c/project", "../../c/project">>>>
    [] p = 2 -> <<<<"../project", "/a/project">>, <<"project", "../b/project">>,
                  <<"../../c/project", "/c/project">>>>
    [] p = 3 -> <<<<"../a/project", "/a/project">>,
                  <<"../a/b/project", "/c/../a/b/./project">>, <<"project", "./project">>>>

-----------------------------------------------------------------------------
Str(v) == Scalar("string", v)
Num(v) == Scalar("integer", v)
Bool(v) == Scalar("boolean", v)

Item(path, role) == Object(<<Member("path", Str(path)), Member("role", Str(role))>>)

(* The items of a body, as Project p writes them.                          *)
BodyItems(p, body) ==
  Array([i \in DOMAIN body |->
    IF body[i] = Source THEN Item("x", IF i = 1 THEN "source" ELSE "type")
    ELSE Item(SpellingsOf(p)[body[i]][i], "project")])

Abi == <<Member("target", Str("posix-x64")), Member("pack", Num("8"))>>
Configuration(abi) == Object(<<Member("abi", Object(abi))>>)
ProjectMembers(items, configuration) ==
  <<Member("version", Num("1")), Member("name", Str("x")),
    Member("project", items), Member("configuration", configuration)>>

Endpoint(name) ==
  <<Member("name", Str(name)), Member("transport", Str("tcp")),
    Member("protocol", Str("json")), Member("address", Str("x")),
    Member("port", Num("80"))>>
Communication(endpoints) ==
  <<Member("endpoints", Array(endpoints)), Member("console", Bool("true"))>>
ServerMembers(communication) ==
  <<Member("version", Num("1")), Member("server", Object(communication)),
    Member("logging", Object(<<Member("level", Str("info")),
                               Member("console", Bool("false"))>>)),
    Member("telemetry", Object(<<Member("metrics", Bool("true"))>>)),
    Member("project", Object(<<Member("path", Str("project"))>>))>>

(* Every value of the wrong kind, and scalars that are not admitted.       *)
Odd ==
  <<Str(""), Str("odd"), Str("source"), Num("0"), Num("1"), Num("16"), Num("huge"),
    Bool("true"), Scalar("number", "1.0"), Scalar("null", ""), Object(<<>>),
    Array(<<>>), Array(<<Str("x")>>), Array(<<Object(<<>>)>>), Array(<<Array(<<>>)>>)>>

(* Op of every pair of places of two sequences.                            *)
Pairs(m, n, Op(_, _)) ==
  [k \in 1..(m * n) |-> Op(((k - 1) \div n) + 1, ((k - 1) % n) + 1)]

(* The members in other orders: rotated, and rotated backwards.            *)
Rotated(ms, k) == [i \in DOMAIN ms |-> ms[((i + k) % Len(ms)) + 1]]
Orders(ms) ==
  [k \in DOMAIN ms |-> Rotated(ms, k)] \o [k \in DOMAIN ms |-> Rotated(Reverse(ms), k)]

(* The members with one of them changed, dropped, written twice or joined  *)
(* by one nobody knows.                                                    *)
Edited(ms) ==
  LET changed(i, v) == [ms EXCEPT ![i].value = Odd[v]]
      copied(i, j) == [ms EXCEPT ![i].value = ms[j].value]
      twice(i, j) == InsertAt(ms, i, ms[j])
  IN
  Pairs(Len(ms), Len(Odd), changed) \o Pairs(Len(ms), Len(ms), copied)
  \o Pairs(Len(ms), Len(ms), twice) \o [i \in DOMAIN ms |-> RemoveAt(ms, i)]
  \o [v \in DOMAIN Odd |-> Append(ms, Member("odd", Odd[v]))]

Variants(ms) == Orders(ms) \o Edited(ms)

Valid(document) == [readable |-> TRUE, json |-> TRUE, document |-> document]
Cut(document) == [Valid(document) EXCEPT !.json = FALSE]
Unreadable == [Valid(Object(<<>>)) EXCEPT !.readable = FALSE]

(* Valid files, one for every way of writing a part of the document.       *)
Written(parts, Doc(_)) == [i \in DOMAIN parts |-> Valid(Doc(parts[i]))]

ItemVariants == Variants(Item("b/project", "project").items)
Other == Item("x", "type")

ProjectDocuments ==
  LET good == ProjectMembers(BodyItems(1, <<2, Source>>), Configuration(Abi))
      whole(ms) == Object(ms)
      first(ms) == Object(ProjectMembers(Array(<<Object(ms), Other>>), Configuration(Abi)))
      second(ms) == Object(ProjectMembers(Array(<<Other, Object(ms)>>), Configuration(Abi)))
      abi(ms) == Object(ProjectMembers(Array(<<>>), Configuration(ms)))
      configuration(ms) == Object(ProjectMembers(Array(<<>>), Object(ms)))
      scalar(v) == v
  IN
  Written(Variants(good), whole) \o Written(Edited(Reverse(good)), whole)
  \o Written(ItemVariants, first) \o Written(ItemVariants, second)
  \o Written(Variants(Abi), abi)
  \o Written(Edited(Configuration(Abi).items), configuration)
  \o Written(Odd, scalar) \o <<Cut(Object(<<>>)), Cut(Object(good))>>

ServerDocuments ==
  LET good == ServerMembers(Communication(<<>>))
      whole(ms) == Object(ms)
      communication(ms) == Object(ServerMembers(ms))
      first(ms) == Object(ServerMembers(Communication(<<Object(ms), Object(Endpoint("x"))>>)))
      second(ms) == Object(ServerMembers(Communication(<<Object(Endpoint("x")), Object(ms)>>)))
      path(text) == Object([good EXCEPT ![5].value = Object(<<Member("path", Str(text))>>)])
      scalar(v) == v
      endpoints == Variants(Endpoint("b/project")) \o <<Endpoint("x")>>
  IN
  <<Valid(Object(good)), Unreadable, Cut(Object(good))>>
  \o Written(Variants(good), whole) \o Written(Variants(Communication(<<>>)), communication)
  \o Written(endpoints, first) \o Written(endpoints, second)
  \o Written(<<"./project", "x">>, path) \o Written(Odd, scalar)

-----------------------------------------------------------------------------
MCBodies == UNION {[1..n -> {Source} \cup Projects] : n \in 0..2}

(* The bodies as a list.                                                   *)
BodyList ==
  LET item(i) == i - 1
      one(i) == <<item(i)>>
      two(i, j) == <<item(i), item(j)>>
      n == NumProjects + 1
  IN <<<<>>>> \o [i \in 1..n |-> one(i)] \o Pairs(n, n, two)

(* The file of a Project: one of the bodies (the first is empty),          *)
(* unreadable, or, of the root, one of the documents.                      *)
BodyFiles(p) ==
  [i \in DOMAIN BodyList |->
     Valid(Object(ProjectMembers(BodyItems(p, BodyList[i]), Configuration(Abi))))]
  \o <<Unreadable>>
BodyPlaces == 1..(Len(BodyList) + 1)

(* The places of the bodies of at most one item, and of the unreadable.    *)
ShortPlaces == {i \in BodyPlaces : i > Len(BodyList) \/ Len(BodyList[i]) <= 1}

ProjectFiles == <<BodyFiles(1) \o ProjectDocuments, BodyFiles(2), BodyFiles(3)>>

MCProjectFile(p, n) == ProjectFiles[p][n]
MCServerFile(n) == ServerDocuments[n]

(* Every composition of three Projects, each possibly unreadable, the      *)
(* third with at most one item; every Project document; every Server       *)
(* document.                                                               *)
MCStarts ==
  {[servers |-> {1}, projects |-> BodyPlaces \X BodyPlaces \X ShortPlaces],
   [servers |-> {1}, projects |-> {<<d, 1, 1>> : d \in DOMAIN ProjectFiles[1]}],
   [servers |-> DOMAIN ServerDocuments, projects |-> {<<1, 1, 1>>}]}

-----------------------------------------------------------------------------
(* A document of a schema, read as a tree: an object has each of its keys  *)
(* once, in any order, and nothing else.                                   *)
RECURSIVE Conforms(_, _, _)
Conforms(S, c, value) ==
  LET Fits(slot, v) ==
        /\ v.t = slot.t
        /\ CASE v.t = "object" -> Conforms(S, slot.to, v)
             [] v.t = "array" ->
                  /\ \A i \in DOMAIN v.items : Conforms(S, S.element, v.items[i])
                  /\ S.unique => \A i, j \in DOMAIN v.items : i # j =>
                       {m.value.v : m \in {n \in Range(v.items[i].items) : n.key = "name"}}
                       # {m.value.v : m \in {n \in Range(v.items[j].items) : n.key = "name"}}
             [] OTHER -> v.v \in slot.admitted
  IN
  /\ value.t = "object"
  /\ {m.key : m \in Range(value.items)} = DOMAIN S.fields[c]
  /\ Len(value.items) = Cardinality(DOMAIN S.fields[c])
  /\ \A i \in DOMAIN value.items :
       Fits(S.fields[c][value.items[i].key], value.items[i].value)

Get(value, key) == (CHOOSE m \in Range(value.items) : m.key = key).value

(* What is wrong with a file, and what a reader takes a good one to say.   *)
Verdict(S, f) ==
  IF ~f.readable THEN "read_failed"
  ELSE IF ~f.json THEN "invalid_json"
  ELSE IF ~Conforms(S, "root", f.document) THEN "invalid_configuration"
  ELSE IF Get(f.document, "version").v # "1" THEN "unsupported_version"
  ELSE "ok"

ProjectMeant(p, text) ==
  CHOOSE q \in Projects : text \in Range(SpellingsOf(p)[q])

ItemsMeant(p, f) ==
  LET items == Get(f.document, "project").items IN
  [i \in DOMAIN items |->
     IF Get(items[i], "role").v = "project"
     THEN ProjectMeant(p, Get(items[i], "path").v) ELSE Source]

(* Both loaders accept exactly the documents of their schema, whatever the *)
(* order of the members, say of another one what is wrong with it, and     *)
(* what the composition starts from is what the files say, however they    *)
(* spell the path of a Project.                                            *)
StartupExact ==
  phase = "begin" =>
    LET verdict(p) == Verdict(ProjectSchema, ProjectFile(p, file[p]))
        serverVerdict == Verdict(ServerSchema, ServerFile(server))
        reached == serverVerdict = "ok" /\
          Get(Get(ServerFile(server).document, "project"), "path").v
            \in Range(SpellingsOf(Root)[Root])
    IN
    /\ startup = "project" => reached
    /\ startup = "resolve" /\ ~scarce =>
         /\ reached /\ verdict(Root) = "ok"
         /\ unreadable = {p \in Projects : verdict(p) # "ok"}
         /\ \A p \in Projects \ unreadable :
              config[p] = ItemsMeant(p, ProjectFile(p, file[p]))
    /\ startup \notin {"server", "project", "resolve", "initialization_failed"} =>
         startup = IF serverVerdict # "ok" THEN serverVerdict
                   ELSE IF ~reached THEN "read_failed" ELSE verdict(Root)

-----------------------------------------------------------------------------
(* The items of a Project in the order they are written, those of a        *)
(* Project it refers to at the first reference.                            *)
RECURSIVE Flatten(_, _)
Flatten(acc, p) ==
  LET Step(a, item) ==
        CASE item = Source -> [a EXCEPT !.roots = Append(@, p)]
          [] item # Source /\ item \in a.done -> a
          [] OTHER -> Flatten(a, item)
      after == FoldLeft(Step, acc, config[p])
  IN [after EXCEPT !.done = @ \cup {p}]

(* The roots depend on the files alone, not on the order in which threads  *)
(* loaded them: they are added as a reader of the configurations expects.  *)
RootsAsWritten ==
  result = "ok" => roots = Flatten([done |-> {}, roots |-> <<>>], Root).roots

(* Status and roots are what the files call for.                           *)
ResultExact == OutcomeExact /\ RootsAsWritten
=============================================================================
