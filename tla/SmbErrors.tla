------------------------------ MODULE SmbErrors ------------------------------
(***************************************************************************)
(* How krystallos-smb (error.rs) tells why a libsmb2 call failed.          *)
(*                                                                         *)
(* libsmb2 reports a failure through up to three channels: the NT status   *)
(* register of the context, a STATUS_ name in the message, and the value   *)
(* the call returned.  from_parts asks them in this order.  The register   *)
(* belongs to the context and not to the call: what one call leaves in it  *)
(* is still there when the next call fails without setting it.             *)
(*                                                                         *)
(* A call and the classification of its failure are one step: the session  *)
(* thread does nothing in between.  Messages are the name they carry, if   *)
(* any; codes are their names.                                             *)
(***************************************************************************)
EXTENDS Naturals

CONSTANT NoStatus  \* an empty register, a message without a name

-----------------------------------------------------------------------------
(* The tables *)

NotFound == {"OBJECT_NAME_NOT_FOUND", "OBJECT_PATH_NOT_FOUND", "NO_SUCH_FILE", "BAD_NETWORK_NAME"}
Denied == {"ACCESS_DENIED", "NETWORK_ACCESS_DENIED"}
Rejected == {"LOGON_FAILURE", "ACCOUNT_RESTRICTION", "ACCOUNT_DISABLED", "PASSWORD_EXPIRED"}
Gone == {"NETWORK_NAME_DELETED", "USER_SESSION_DELETED", "CONNECTION_DISCONNECTED",
         "CONNECTION_RESET", "NETWORK_SESSION_EXPIRED"}

\* Statuses the tables do not know stand behind this one.
Unlisted == "DISK_FULL"

Status == NotFound \cup Denied \cup Rejected \cup Gone \cup
          {"OBJECT_NAME_COLLISION", "NOT_A_DIRECTORY", "FILE_IS_A_DIRECTORY", "CANNOT_DELETE",
           "DIRECTORY_NOT_EMPTY", "NOT_SUPPORTED", "INVALID_DEVICE_REQUEST", Unlisted}

Unknown == "none"

\* from_status
FromStatus(s) ==
    CASE s \in NotFound -> "NotFound"
      [] s \in Denied -> "PermissionDenied"
      [] s \in Rejected -> "Auth"
      [] s \in Gone -> "ConnectionLost"
      [] s = "OBJECT_NAME_COLLISION" -> "AlreadyExists"
      [] s = "NOT_A_DIRECTORY" -> "NotADirectory"
      [] s \in {"FILE_IS_A_DIRECTORY", "CANNOT_DELETE"} -> "IsADirectory"
      [] s = "DIRECTORY_NOT_EMPTY" -> "DirectoryNotEmpty"
      [] s \in {"NOT_SUPPORTED", "INVALID_DEVICE_REQUEST"} -> "Unsupported"
      [] OTHER -> Unknown

\* status_from_name: the names that are looked for in messages.
Named == Status \ {"INVALID_DEVICE_REQUEST", Unlisted}

FromName(s) == IF s \in Named THEN FromStatus(s) ELSE Unknown

\* What a call returns: "null" where it returns a pointer (and the caller passes
\* 0), "-1" for the generic failure, or -errno.
Errno == {"ENOENT", "EACCES", "ENOTDIR", "EISDIR", "ENOTEMPTY", "ECONNREFUSED", "EINVAL", "ENOSPC"}
ReturnCode == {"null", "-1"} \cup Errno

\* from_errno
FromErrno(rc) ==
    CASE rc = "ENOENT" -> "NotFound"
      [] rc = "EACCES" -> "PermissionDenied"
      [] rc = "ENOTDIR" -> "NotADirectory"
      [] rc = "EISDIR" -> "IsADirectory"
      [] rc = "ENOTEMPTY" -> "DirectoryNotEmpty"
      [] rc = "ECONNREFUSED" -> "Auth"
      [] rc = "EINVAL" -> "Unsupported"
      [] OTHER -> Unknown

FromParts_MinusOneIsErrno(register, token, rc) ==
    IF FromStatus(register) # Unknown THEN FromStatus(register)
    ELSE IF FromName(token) # Unknown THEN FromName(token)
    ELSE IF rc = "-1" THEN "PermissionDenied"
    ELSE IF FromErrno(rc) # Unknown THEN FromErrno(rc)
    ELSE "Backend"

FromParts_NoLastResort(register, token, rc) ==
    IF FromStatus(register) # Unknown THEN FromStatus(register)
    ELSE IF FromName(token) # Unknown THEN FromName(token)
    ELSE IF rc = "-1" THEN "ConnectionLost"
    ELSE FromErrno(rc)

\* from_parts: the first channel that has an answer.
FromParts(register, token, rc) ==
    IF FromStatus(register) # Unknown THEN FromStatus(register)
    ELSE IF FromName(token) # Unknown THEN FromName(token)
    ELSE IF rc = "-1" THEN "ConnectionLost"
    ELSE IF FromErrno(rc) # Unknown THEN FromErrno(rc)
    ELSE "Backend"

\* Error::is_fatal_to_session
IsFatal(e) == e \in {"ConnectionLost", "Auth"}

-----------------------------------------------------------------------------
(* The session thread's calls *)

VARIABLES
    linkUp,    \* the connection to the server
    register,  \* what smb2_get_nterror returns
    error,     \* what the last call was reported as: "ok" or a variant of Error
    cause,     \* why it failed: a status, "link", or an errno; "none" when it did not
    returned,  \* what it returned
    stale      \* it left the register alone, which held a status the tables know

vars == <<linkUp, register, error, cause, returned, stale>>

Kinds == {"NotFound", "PermissionDenied", "AlreadyExists", "NotADirectory", "IsADirectory",
          "DirectoryNotEmpty", "Unsupported", "ConnectionLost", "Auth", "Backend"}

TypeOK ==
    /\ linkUp \in BOOLEAN
    /\ register \in Status \cup {NoStatus}
    /\ error \in Kinds \cup {"ok"}
    /\ cause \in Status \cup Errno \cup {"link", "none"}
    /\ returned \in ReturnCode \cup {"ok"}
    /\ stale \in BOOLEAN

Init ==
    /\ linkUp = TRUE
    /\ register = NoStatus
    /\ error = "ok" /\ cause = "none" /\ returned = "ok"
    /\ stale = FALSE

\* The call does not set the register: libsmb2 does not reset it.
LeavesRegister ==
    /\ UNCHANGED register
    /\ stale' = (FromStatus(register) # Unknown)

\* The values that come with a status: libsmb2 makes ECONNREFUSED of a rejected
\* logon alone, and a bare -1 stands beside a status only where the table knows it.
RcWith(s) == {rc \in ReturnCode \ {"ECONNREFUSED"} : rc = "-1" => FromStatus(s) # Unknown}

\* The statuses of this session's later calls: one that rejects the credentials
\* comes before there is a session.
Answers == Status \ Rejected

Succeeds ==
    /\ linkUp
    /\ error' = "ok" /\ cause' = "none" /\ returned' = "ok"
    /\ LeavesRegister
    /\ UNCHANGED linkUp

\* The server answers with a status, and libsmb2 sets the register.
FailsByStatus ==
    /\ linkUp
    /\ \E s \in Answers : \E rc \in RcWith(s) :
          /\ cause' = s /\ returned' = rc
          /\ register' = s /\ stale' = FALSE
          /\ error' = FromParts(s, NoStatus, rc)
          /\ linkUp' = (s \notin Gone)

\* libsmb2 writes the status into the message and not into the register, as it
\* does for the Create path.
FailsByMessage ==
    /\ linkUp
    /\ \E s \in Answers \cap Named : \E rc \in RcWith(s) :
          /\ cause' = s /\ returned' = rc
          /\ error' = FromParts(register, s, rc)
          /\ linkUp' = (s \notin Gone)
    /\ LeavesRegister

\* Nothing but the return value tells.
FailsByErrno ==
    /\ linkUp
    /\ \E rc \in Errno \ {"ECONNREFUSED"} :
          /\ cause' = rc /\ returned' = rc
          /\ error' = FromParts(register, NoStatus, rc)
    /\ LeavesRegister
    /\ UNCHANGED linkUp

\* A failed poll, an expired timeout, a context that cannot recover: no status,
\* no name, and the generic failure.  So does every call after it.
LinkFails ==
    /\ \E rc \in {"-1", "null"} :
          /\ returned' = rc
          /\ error' = FromParts(register, NoStatus, rc)
    /\ cause' = "link"
    /\ LeavesRegister
    /\ linkUp' = FALSE

Next == Succeeds \/ FailsByStatus \/ FailsByMessage \/ FailsByErrno \/ LinkFails

Spec == Init /\ [][Next]_vars

-----------------------------------------------------------------------------

\* A failure is reported as what it was, by whichever channel it was told and
\* whatever the others suggest, unless an earlier call's status stands in the way: a
\* status by its kind, a bare -1 without one as a lost connection, an errno by its own.
ReportedAsHappened ==
    ~stale =>
       /\ cause \in Status /\ FromStatus(cause) # Unknown => error = FromStatus(cause)
       /\ cause \in Errno /\ FromErrno(cause) # Unknown => error = FromErrno(cause)
       /\ cause = "link" /\ returned = "-1" => error = "ConnectionLost"

\* A session is given up only when it is gone: no failure of a single operation,
\* and no leftover of one in the register, is reported as fatal to the session.
FatalOnlyWhenGone == IsFatal(error) => ~linkUp

\* What the comment on a bare -1 says, for the calls that return one without a
\* status: the connection is gone, and the caller is told so.
MinusOneIsLost == cause = "link" /\ returned = "-1" => error = "ConnectionLost"
=============================================================================
