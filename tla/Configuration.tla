--------------------------- MODULE Configuration ---------------------------
(***************************************************************************)
(* src/src/Configuration.cpp: the configuration of server and clients, a   *)
(* JSON file with lists of cameras and of clients and with single values.  *)
(* It can be read again; what was known stays known.                       *)
(***************************************************************************)
EXTENDS JsonWriter

CONSTANT Files  \* bound: the files that are read

\* Names of members and strings in the order of strcmp.
calib == 1
cameras == 2
clients == 3
guid == 4
id == 5
ip == 6
name == 7
port == 8
Port == 5

VARIABLES
    file,       \* the file that was read last, as its author thought of it
    config,     \* the document, with what was asked for since
    camerasOf,  \* std::map cameras
    clientsOf,  \* std::map clients
    status      \* "ok", "failed", "unopened", or "aborted" by an assertion or an exception
configVars == <<file, config, camerasOf, clientsOf, status>>

---------------------------------------------------------------------------
(* Files.  Where a list of <<guid, id, calib>> or <<ip, name>> should be,   *)
(* it may be "missing", or a "string" or an "object".  A file may break    *)
(* off.                                                                    *)

NoList(kind) == [kind |-> kind, list |-> <<>>]
ListOf(entries) == [kind |-> "list", list |-> entries]
File(cams, cls, breaks) == [cams |-> cams, cls |-> cls, breaks |-> breaks]

\* 0 stands for a member that is left out, -1 for one of the wrong type.
Member(p, k, n, type) ==
    IF n = 0 THEN <<>> ELSE Append(p, k) :> (IF n = -1 THEN Node(arrayValue, 0) ELSE Node(type, n))
\* The members of an entry are `keys', of types `types'.
ListAt(k, l, keys, types) ==
    CASE l.kind = "missing" -> <<>>
      [] l.kind = "string" -> <<k>> :> Node(stringValue, 1)
      [] l.kind = "object" -> (<<k>> :> Node(objectValue, 0)) @@ (<<k, id>> :> Node(intValue, 1))
      [] OTHER -> (<<k>> :> Node(arrayValue, 0))
           @@ FoldLeft(LAMBDA v, e : v @@ e, <<>>,
                [i \in 1 .. Len(l.list) |->
                   FoldLeft(LAMBDA v, j : v @@ Member(<<k, i - 1>>, keys[j], l.list[i][j], types[j]),
                            <<k, i - 1>> :> Node(objectValue, 0), [j \in 1 .. Len(keys) |-> j])])
Document(f) ==
    (<<>> :> Node(objectValue, 0)) @@ (<<port>> :> Node(intValue, Port))
    @@ ListAt(cameras, f.cams, <<guid, id, calib>>, <<intValue, intValue, stringValue>>)
    @@ ListAt(clients, f.cls, <<ip, name>>, <<stringValue, stringValue>>)
FileText(f) == LET t == WriteFast(Document(f)) IN IF f.breaks THEN Front(t) ELSE t

---------------------------------------------------------------------------
\* operator[] of a member of an object or of null, and of a scalar: an assertion.
Indexable(v, p, type) == v[p].type \in {nullValue, type}
At(v, p, k, type) == Resolve(IF v[p].type = nullValue THEN Assign(v, p, type, 0) ELSE v, p, k)

Field(v, p, k) == LET q == Append(p, k) IN IF q \in DOMAIN v THEN v[q] ELSE Node(nullValue, 0)

Camera(v, q) ==
    LET g == AsUInt64(Field(v, q, guid))
        i == AsInt(Field(v, q, id))
        c == AsString(Field(v, q, calib))
    IN  [fails |-> g.fails \/ i.fails \/ c.fails, key |-> g.n, entry |-> <<i.n, c.n>>]
Client(v, q) ==
    LET i == AsString(Field(v, q, ip))
        n == AsString(Field(v, q, name))
    IN  [fails |-> i.fails \/ n.fails, key |-> i.n, entry |-> <<n.n>>]

Entry(v, k, i) == IF k = cameras THEN Camera(v, <<k, i>>) ELSE Client(v, <<k, i>>)

\* A list can be gone through; its size is that of an object, too.
Readable(v, k) ==
    \A i \in 0 .. Size(v, <<k>>) - 1 :
        /\ Indexable(v, <<k>>, arrayValue)
        /\ Indexable(v, <<k, i>>, objectValue) /\ ~Entry(v, k, i).fails

\* cameras[cp.guid] = cp
Entered(known, e) == (e.key :> e.entry) @@ known
EnteredAll(v, k, known) ==
    FoldLeft(Entered, known, [i \in 1 .. Size(v, <<k>>) |-> Entry(v, k, i - 1)])

\* parse: the lists are asked for, then gone through.  Nothing is left of a
\* program that aborts.
WithLists(v) == At(At(v, <<>>, cameras, objectValue), <<>>, clients, objectValue)
Fail(r) == config' = r.value /\ status' = "failed" /\ UNCHANGED <<camerasOf, clientsOf>>
Take(v) ==
    /\ config' = v
    /\ \/ /\ Readable(v, cameras) /\ Readable(v, clients)
          /\ status' = "ok"
          /\ camerasOf' = EnteredAll(v, cameras, camerasOf)
          /\ clientsOf' = EnteredAll(v, clients, clientsOf)
       \/ /\ ~(Readable(v, cameras) /\ Readable(v, clients))
          /\ status' = "aborted" /\ UNCHANGED <<camerasOf, clientsOf>>
CannotOpen == status # "aborted" /\ status' = "unopened" /\ UNCHANGED <<file, config, camerasOf, clientsOf>>
Read(f) ==
    /\ status # "aborted"
    /\ file' = f
    /\ \E r \in {Parse(FileText(f))} :
          \/ ~r.ok /\ Fail(r)
          \/ r.ok /\ \E v \in {WithLists(r.value)} : Take(v)

\* getInt, getStr and the like: what is asked for is there from then on.
Ask(k) ==
    /\ status # "aborted" /\ Indexable(config, <<>>, objectValue)
    /\ config' = At(config, <<>>, k, objectValue)
    /\ status' = IF AsInt(Field(config, <<>>, k)).fails THEN "aborted" ELSE status
    /\ UNCHANGED <<file, camerasOf, clientsOf>>

GetInt(k) == AsInt(Field(config, <<>>, k))

NoFile == File(NoList("missing"), NoList("missing"), TRUE)
Init ==
    /\ file = NoFile /\ config = Scalar(nullValue, 0)
    /\ camerasOf = <<>> /\ clientsOf = <<>> /\ status = "failed"
Next == CannotOpen \/ (\E f \in Files : Read(f)) \/ (\E k \in {port, name, cameras} : Ask(k))
Spec == Init /\ [][Next]_configVars

---------------------------------------------------------------------------
\* What the last entry for a key says: a member that is left out reads as 0.
LastFor(l, key) == Tail(l[Max({i \in 1 .. Len(l) : l[i][1] = key})])
TellsTruth(l, known) ==
    /\ l.kind # "object" /\ \A i \in 1 .. Len(l.list) : -1 \notin ToSet(l.list[i])
    /\ \A i \in 1 .. Len(l.list) :
          LET key == l.list[i][1] IN key \in DOMAIN known /\ known[key] = LastFor(l.list, key)

(* A file that was read has told all its cameras and clients, the last     *)
(* entry for each, whatever was read before, and still tells them when     *)
(* another file cannot be opened; a file that breaks off is refused; and   *)
(* no question changes the answer to another, though it changes the        *)
(* document (Configuration::read, parse, getCamera, getClient, getInt).    *)
ConfigurationIsExact ==
    /\ status = "ok" => ~file.breaks
    /\ status \in {"ok", "unopened"} /\ ~file.breaks =>
          /\ GetInt(port) = Converted(Port)
          /\ TellsTruth(file.cams, camerasOf) /\ TellsTruth(file.cls, clientsOf)
    /\ status = "failed" => file.breaks
    /\ status # "aborted" =>
          \A k, j \in {port, name, cameras, clients} :
              AsInt(Field(At(config, <<>>, k, objectValue), <<>>, j)) = GetInt(j)
============================================================================
