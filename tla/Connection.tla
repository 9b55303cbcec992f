----------------------------- MODULE Connection -----------------------------
(***************************************************************************)
(* From a ConnectRequest to a session and the errors of its calls:         *)
(* Kernel::connect (krystallos-ffi), BackendRegistry (krystallos-core),    *)
(* the two drivers, SmbContext::connect, and every translation an error    *)
(* passes on its way to the caller.  Sessions come one after the other;    *)
(* each SMB session has a libsmb2 context of its own, whose calls and      *)
(* their failures are those of SmbErrors.                                  *)
(*                                                                         *)
(* Text is a sequence of tokens: names, and the separators that are looked *)
(* for in it.                                                              *)
(***************************************************************************)
EXTENDS Naturals, SequencesExt

CONSTANTS
    NoStatus,   \* see SmbErrors
    Absent,     \* an Option that is None
    Requests,   \* bound: the ConnectRequests made
    Written     \* bound: the parts that endpoints are written in

VARIABLES
    linkUp, register, error, cause, returned, stale,  \* see SmbErrors
    phase,     \* how far the connection is
    backend,   \* whose it is, "smb" or "file"
    request,   \* the ConnectRequest it is made by
    config,    \* what SmbDriver made of it
    applied,   \* what libsmb2 was told of it
    network,   \* the process's sockets: "new", "ready" or "broken"
    contexts,  \* how many libsmb2 contexts exist
    setHere    \* a call on the present context has set its register

smb == <<linkUp, register, error, cause, returned, stale>>
vars == <<smb, phase, backend, request, config, applied, network, contexts, setHere>>

Smb == INSTANCE SmbErrors

\* An empty register holds no status.
ASSUME NoStatusAssumption == NoStatus \notin Smb!Status

\* No option that is None is one that is set.
ASSUME AbsentAssumption ==
    Absent \notin BOOLEAN /\ Absent \notin {"1", "true", "yes", "on", "0", "false", "no", "off"}

ASSUME RequestsAssumption ==
    \A r \in Requests : r.uri \in Seq(STRING) /\ r.seal \in BOOLEAN

\* A part is written without the separators that would end it; a path begins with one.
ASSUME WrittenAssumption ==
    \A w \in Written :
       /\ {w.domain, w.user} \subseteq Seq(STRING) \cup {Absent}
       /\ {w.server, w.share, w.path} \subseteq Seq(STRING)
       /\ \A part \in {w.server, w.share} \cup ({w.domain, w.user} \ {Absent}) :
             \A i \in DOMAIN part : part[i] \notin {"/", "@", ";"}
       /\ w.path # <<>> => w.path[1] = "/"

-----------------------------------------------------------------------------
(* Endpoints *)

\* str::split_once at the token sep, if it is there.
Index(s, sep) == SelectInSeq(s, LAMBDA x : x = sep)
Before(s, sep) == SubSeq(s, 1, Index(s, sep) - 1)
After(s, sep) == SubSeq(s, Index(s, sep) + 1, Len(s))

\* Schemes as they are written, and what is a valid one; "sm b" is not.
Lower == [smb |-> "smb", SMB |-> "smb", file |-> "file", sftp |-> "sftp"]

\* Endpoint::parse
Endpoint(uri) ==
    LET scheme == Before(uri, "://") IN
    IF /\ Index(uri, "://") # 0
       /\ scheme # <<>> /\ \A i \in DOMAIN scheme : scheme[i] \in DOMAIN Lower
    THEN [ok |-> TRUE, scheme |-> [i \in DOMAIN scheme |-> Lower[scheme[i]]],
          rest |-> After(uri, "://")]
    ELSE [ok |-> FALSE]

\* Kernel::new: what is registered later displaces what was there.
Register(drivers, driver) ==
    [s \in DOMAIN drivers \cup {<<driver>>} |-> IF s = <<driver>> THEN driver ELSE drivers[s]]

Drivers == Register(Register([s \in {} |-> ""], "file"), "smb")

Given(name) == IF name = <<>> THEN Absent ELSE name

ParsedEndpoint_UserFirst(text) ==
    LET rest == IF Index(text, ";") = 0 THEN text ELSE After(text, ";")
        place == IF Index(rest, "@") = 0 THEN rest ELSE After(rest, "@")
        share == Before(Append(After(place, "/"), "/"), "/")
    IN  IF Index(place, "/") = 0 \/ share = <<>> \/ Before(place, "/") = <<>>
        THEN [ok |-> FALSE]
        ELSE [ok |-> TRUE, server |-> Before(place, "/"), share |-> share,
              domain |-> IF Index(text, ";") = 0 THEN Absent ELSE Given(Before(text, ";")),
              user |-> IF Index(rest, "@") = 0 THEN Absent ELSE Given(Before(rest, "@"))]

\* ParsedEndpoint::parse: [domain;][user@]server/share[/path]
ParsedEndpoint(text) ==
    LET authority == Before(text, "/")
        share == Before(Append(After(text, "/"), "/"), "/")
        rest == IF Index(authority, ";") = 0 THEN authority ELSE After(authority, ";")
        server == IF Index(rest, "@") = 0 THEN rest ELSE After(rest, "@")
    IN  IF Index(text, "/") = 0 \/ share = <<>> \/ server = <<>>
        THEN [ok |-> FALSE]
        ELSE [ok |-> TRUE, server |-> server, share |-> share,
              domain |-> IF Index(authority, ";") = 0 THEN Absent
                         ELSE Given(Before(authority, ";")),
              user |-> IF Index(rest, "@") = 0 THEN Absent ELSE Given(Before(rest, "@"))]

Label(parsed) == <<"smb", "://">> \o parsed.server \o <<"/">> \o parsed.share

-----------------------------------------------------------------------------
(* Credentials and options *)

\* into_parts sets the option only to turn it on.
Options(r) == IF r.seal THEN "true" ELSE Absent

\* ConnectionOptions::get_bool: Absent also for what it does not recognise.
GetBool(value) ==
    CASE value \in {"1", "true", "yes", "on"} -> TRUE
      [] value \in {"0", "false", "no", "off"} -> FALSE
      [] OTHER -> Absent

OrElse(a, b) == IF a # Absent THEN a ELSE b

Config_UriWins(r, parsed) ==
    [server |-> parsed.server, share |-> parsed.share,
     user |-> OrElse(parsed.user, r.username), password |-> r.password,
     domain |-> OrElse(parsed.domain, r.domain), seal |-> r.seal]

\* What SmbDriver::connect hands to the session thread.
Config(r, parsed) ==
    [server |-> parsed.server, share |-> parsed.share,
     user |-> OrElse(r.username, parsed.user), password |-> r.password,
     domain |-> OrElse(r.domain, parsed.domain),
     seal |-> OrElse(GetBool(Options(r)), FALSE)]

\* cstring refuses text with a NUL in it.
HasNul(c) ==
    \E name \in {c.user, c.password, c.domain, c.server, c.share} \ {Absent} :
       Index(name, "\\0") # 0

-----------------------------------------------------------------------------
(* Errors *)

IoKind == {"NotFound", "PermissionDenied", "AlreadyExists", "NotADirectory", "IsADirectory",
           "DirectoryNotEmpty", "ConnectionReset", "Other"}

MapIo_KeepsKinds(kind) == IF kind = "ConnectionReset" THEN "ConnectionLost" ELSE kind

\* map_io of the local backend.
MapIo(kind) == IF kind \in {"ConnectionReset", "Other"} THEN "Io" ELSE kind

\* From<CoreError> for KernelError: one to one but for Io.
KernelError(e) == IF e = "Io" THEN "Backend" ELSE e

Told == IF error = "ok" THEN "ok" ELSE KernelError(error)

\* What SmbErrors says of an error, said of what the caller is told.
ToCaller == INSTANCE SmbErrors WITH error <- Told

-----------------------------------------------------------------------------
(* Connecting *)

None == [ok |-> FALSE]

Init ==
    /\ linkUp = FALSE /\ register = NoStatus
    /\ error = "ok" /\ cause = "none" /\ returned = "ok" /\ stale = FALSE
    /\ phase = "idle" /\ backend = "none"
    /\ request \in Requests /\ config = None /\ applied = None
    /\ network = "new" /\ contexts = 0 /\ setHere = FALSE

\* The outcome of something that is not a libsmb2 call.
Outcome(e) == error' = e /\ cause' = "none" /\ returned' = "ok" /\ stale' = FALSE

Refuse(e) ==
    /\ Outcome(e)
    /\ phase' = "failed" /\ linkUp' = FALSE

NoContext == applied' = None /\ UNCHANGED <<register, contexts, setHere>>

\* Kernel::connect, up to the driver's own work: the endpoint is parsed, the driver
\* looked up, and the driver parses what is left.
Connect(r) ==
    LET endpoint == Endpoint(r.uri)
        parsed == ParsedEndpoint(endpoint.rest)
        known == endpoint.ok /\ endpoint.scheme \in DOMAIN Drivers
        scheme == IF known THEN Drivers[endpoint.scheme] ELSE "none"
        refused == \/ ~endpoint.ok
                   \/ scheme = "smb" /\ ~parsed.ok
                   \/ scheme = "file" /\ endpoint.rest = <<>>
    IN  /\ phase \in {"idle", "failed"}
        /\ request' = r
        /\ backend' = scheme
        /\ NoContext /\ UNCHANGED network
        /\ config' = IF scheme = "smb" /\ ~refused THEN Config(r, parsed) ELSE None
        /\ CASE refused -> Refuse("InvalidPath")
             [] ~refused /\ ~known -> Refuse("Unsupported")
             [] OTHER -> Outcome("ok") /\ phase' = "start" /\ linkUp' = FALSE

\* LocalDriver::connect: canonicalize, metadata, is_dir.
OpenRoot ==
    /\ phase = "start" /\ backend = "file"
    /\ \/ Outcome("ok") /\ phase' = "open" /\ linkUp' = TRUE
       \/ \E e \in {"NotFound", "Io", "NotADirectory"} : Refuse(e)
    /\ NoContext
    /\ UNCHANGED <<backend, request, config, network>>

\* ensure_network_ready asks the system once, and remembers what it answered.
EnsureNetwork == network' \in IF network = "new" THEN {"ready", "broken"} ELSE {network}

MakeContext_Reused ==
    /\ phase = "start" /\ backend = "smb"
    /\ Outcome("ok") /\ phase' = "made" /\ contexts' = contexts + 1
    /\ setHere' = FALSE
    /\ EnsureNetwork
    /\ UNCHANGED <<linkUp, register, applied, backend, request, config>>

\* Then smb2_init_context, which may fail as well.
MakeContext ==
    /\ phase = "start" /\ backend = "smb"
    /\ EnsureNetwork
    /\ \/ /\ network' = "ready"
          /\ Outcome("ok") /\ phase' = "made" /\ contexts' = contexts + 1
          /\ register' = NoStatus /\ setHere' = FALSE
          /\ UNCHANGED <<linkUp, applied>>
       \/ Refuse("Backend") /\ NoContext
    /\ UNCHANGED <<backend, request, config>>

\* SmbContext::drop
DropContext == contexts' = contexts - 1 /\ applied' = None

Configure_ForgetsContext ==
    /\ phase = "made"
    /\ IF HasNul(config)
       THEN Refuse("InvalidPath") /\ NoContext
       ELSE /\ Outcome("ok") /\ phase' = "share"
            /\ applied' = config
            /\ UNCHANGED <<linkUp, register, contexts, setHere>>
    /\ UNCHANGED <<backend, request, config, network>>

\* The strings are encoded, and set where they are given.  A context that fails
\* here or below is destroyed on the way out.
Configure ==
    /\ phase = "made"
    /\ IF HasNul(config)
       THEN Refuse("InvalidPath") /\ DropContext /\ UNCHANGED <<register, setHere>>
       ELSE /\ Outcome("ok") /\ phase' = "share"
            /\ applied' = config
            /\ UNCHANGED <<linkUp, register, contexts, setHere>>
    /\ UNCHANGED <<backend, request, config, network>>

\* Only a rejected logon comes back as ECONNREFUSED; a server that cannot be
\* reached is a bare -1.
ShareFails ==
    /\ \/ \E s \in Smb!Rejected \cup Smb!NotFound \cup Smb!Denied :
          \E rc \in Smb!RcWith(s) \cup IF s \in Smb!Rejected THEN {"ECONNREFUSED"} ELSE {} :
             /\ cause' = s /\ returned' = rc
             /\ register' = s /\ stale' = FALSE /\ setHere' = TRUE
             /\ error' = Smb!FromParts(s, NoStatus, rc)
       \/ /\ cause' = "link" /\ returned' = "-1"
          /\ error' = Smb!FromParts(register, NoStatus, "-1")
          /\ Smb!LeavesRegister
          /\ UNCHANGED setHere
    /\ phase' = "failed" /\ linkUp' = FALSE
    /\ DropContext

\* smb2_connect_share
ConnectShare ==
    /\ phase = "share"
    /\ \/ /\ Outcome("ok") /\ phase' = "open" /\ linkUp' = TRUE
          /\ UNCHANGED <<register, applied, contexts, setHere>>
       \/ ShareFails
    /\ UNCHANGED <<backend, request, config, network>>

-----------------------------------------------------------------------------
(* The session *)

\* A call of the session thread, as SmbErrors has it.
CallSmb ==
    /\ phase = "open" /\ backend = "smb"
    /\ Smb!Next
    /\ setHere' = (setHere \/ register' # register)
    /\ UNCHANGED <<phase, backend, request, config, applied, network, contexts>>

\* A call of the local backend: it maps the kind where it has a path to report, and
\* passes the io::Error of a file's handle on as it is.
CallLocal ==
    /\ phase = "open" /\ backend = "file"
    /\ \/ Outcome("ok")
       \/ \E kind \in IoKind : Outcome(MapIo(kind)) \/ Outcome("Io")
    /\ UNCHANGED <<linkUp, register, phase, backend, request, config, applied, network>>
    /\ UNCHANGED <<contexts, setHere>>

\* The session is disconnected or dropped, and its thread destroys the context.
Close ==
    /\ phase = "open"
    /\ Outcome("ok") /\ phase' = "idle" /\ linkUp' = FALSE
    /\ IF backend = "smb" THEN DropContext ELSE UNCHANGED <<applied, contexts>>
    /\ UNCHANGED <<register, backend, request, config, network, setHere>>

Next ==
    \/ \E r \in Requests : Connect(r)
    \/ OpenRoot \/ MakeContext \/ Configure \/ ConnectShare
    \/ CallSmb \/ CallLocal \/ Close

Spec == Init /\ [][Next]_vars

-----------------------------------------------------------------------------

TypeOK ==
    /\ linkUp \in BOOLEAN /\ stale \in BOOLEAN /\ setHere \in BOOLEAN
    /\ register \in Smb!Status \cup {NoStatus}
    /\ error \in Smb!Kinds \cup {"ok", "InvalidPath", "Io"}
    /\ phase \in {"idle", "start", "made", "share", "open", "failed"}
    /\ network \in {"new", "ready", "broken"}
    /\ backend \in {"none", "file", "smb"} /\ request \in Requests
    /\ linkUp => phase = "open"
    /\ phase \in {"made", "share"} => config # None
    /\ contexts \in Nat

\* What SmbErrors promises of a failure holds of what the caller is told, while it
\* connects and later: a status by its kind, a bare -1 as a lost connection, an errno
\* by its own, unless an earlier status stands in the way.
ReportedAsHappened == ToCaller!ReportedAsHappened

\* A caller is told to reconnect or to change the credentials only when there is no
\* session: never by a single failed call, of either backend.
FatalOnlyWhenGone == ToCaller!FatalOnlyWhenGone

\* An older status never comes from an earlier session: reconnecting clears it.
StaleOnlyFromOwnSession == stale => setHere

\* There is a context exactly while one is being connected or used: every way out of
\* a failed connection destroys it.  And none without the process's sockets, which are
\* asked for once: a refusal is the answer to every later connection.
ContextsAccounted ==
    /\ contexts = IF backend = "smb" /\ phase \in {"made", "share", "open"} THEN 1 ELSE 0
    /\ network # "ready" => contexts = 0

\* A session runs under what its own request says: the caller's user and domain before
\* the URI's, each for itself, no password but the caller's, sealed exactly if asked.
CallerDecides ==
    phase = "open" /\ backend = "smb" =>
       /\ request.username # Absent => applied.user = request.username
       /\ request.domain # Absent => applied.domain = request.domain
       /\ applied.password = request.password
       /\ applied.seal = request.seal
       /\ LET uri == request.uri \o <<"/">> IN
          \A name \in {applied.user, applied.domain} \ {Absent, request.username, request.domain} :
             \E i, j \in DOMAIN uri : SubSeq(uri, i, j) = name /\ uri[j + 1] \in {"@", ";"}

Rendered(w) ==
    (IF w.domain = Absent THEN <<>> ELSE w.domain \o <<";">>) \o
    (IF w.user = Absent THEN <<>> ELSE w.user \o <<"@">>) \o
    w.server \o <<"/">> \o w.share \o w.path

\* An endpoint is read as it was written, whatever separators occur in its path and
\* whichever of its parts are missing or empty: it is refused exactly if it lacks a
\* server or a share, and its label is an endpoint of the same share that names nobody.
EndpointsReadAsWritten ==
    phase # "idle" =>
       \A w \in Written : request.uri = <<"smb", "://">> \o Rendered(w) =>
          /\ config # None <=> w.server # <<>> /\ w.share # <<>>
          /\ config # None =>
                /\ config.server = w.server /\ config.share = w.share
                /\ config.user = OrElse(request.username, IF w.user = <<>> THEN Absent ELSE w.user)
                /\ config.domain = OrElse(request.domain, IF w.domain = <<>> THEN Absent ELSE w.domain)
                /\ ParsedEndpoint(Endpoint(Label(w)).rest) =
                      [ok |-> TRUE, server |-> w.server, share |-> w.share,
                       user |-> Absent, domain |-> Absent]
=============================================================================
