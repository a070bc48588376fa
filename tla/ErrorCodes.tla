----------------------------- MODULE ErrorCodes ------------------------------
(* What a failure becomes on the wire.  An error is the set of sentinel errors
   that errors.Is finds in it: a failure of the database alone is {}, and
   RunInTransaction joins ErrTransactionAborted to a deadlock.  Sentinels of
   the same name are told apart by their package, as in the source.          *)
EXTENDS Sequences, SequencesExt

Canceled         == "context.Canceled"
DeadlineExceeded == "context.DeadlineExceeded"

Codes == {"ok", "invalid_argument", "unauthenticated", "permission_denied",
          "not_found", "already_exists", "failed_precondition", "aborted",
          "canceled", "deadline_exceeded", "internal", "unavailable"}

\* The rows of clientErrors, in their order, neighbours with one code together.
Row(code, targets) == [code |-> code, targets |-> targets]

RelationClientErrors ==
    << Row("invalid_argument",
           {"ErrTenantIDRequired", "ErrEventIDRequired", "ErrUserIDRequired",
            "ErrScopeRequired", "ErrScopeAmbiguous", "ErrFilterRequired",
            "ErrFilterAmbiguous", "ErrRoleRequired", "ErrRoleReserved",
            "ErrInvitationIDRequired", "ErrInvitationTokenRequired",
            "ErrRoleNotInvitable", "ErrDisplayNameRequired",
            "ErrDisplayNameTooLong"}),
       Row("not_found",
           {"tenantrepository.ErrTenantNotFound", "tenantrepository.ErrEventNotFound",
            "repository.ErrTenantNotFound", "repository.ErrEventNotFound",
            "ErrMembershipNotFound", "ErrInvitationNotFound"}),
       Row("already_exists", {"ErrInvitationPublicIDExists"}),
       Row("failed_precondition", {"ErrInvitationNotPending"}),
       Row("permission_denied", {"ErrInvitationRejected"}),
       Row("not_found", {"ErrEventRoleNotFound"}),
       Row("failed_precondition",
           {"ErrTenantArchived", "ErrEventArchived", "ErrTenantPendingOwner",
            "ErrLastOwner", "ErrMembershipAlreadyExists",
            "ErrTenantMembershipRequired"}),
       Row("permission_denied", {"ErrMismatch", "ErrPermissionDenied"}),
       Row("unauthenticated", {"ErrMissing", "ErrSubjectMissing"}),
       Row("aborted", {"ErrTransactionAborted"}) >>

TenantClientErrors ==
    << Row("invalid_argument",
           {"ErrTenantNameRequired", "ErrTenantContractPlanRequired",
            "ErrTenantIDRequired", "ErrOwnershipClaimTokenRequired",
            "ErrEventNameRequired", "ErrEventIDRequired",
            "ErrEventStatusRequired", "ErrSubdomainRequired",
            "ErrInvalidSubdomain", "ErrDisplayNameRequired",
            "ErrDisplayNameTooLong"}),
       Row("already_exists",
           {"ErrTenantSubdomainExists", "ErrTenantPublicIDExists",
            "ErrEventPublicIDExists"}),
       Row("not_found",
           {"tenantrepository.ErrTenantNotFound", "tenantrepository.ErrEventNotFound"}),
       Row("failed_precondition",
           {"ErrTenantPendingOwner", "ErrTenantArchived", "ErrTenantAlreadyArchived",
            "ErrInvalidEventStatusTransition", "ErrCreatorNotMember"}),
       Row("permission_denied",
           {"ErrPermissionDenied", "ErrMismatch", "ErrOwnershipClaimRejected"}),
       Row("unauthenticated", {"ErrSubjectMissing", "ErrMissing"}),
       Row("aborted", {"ErrTransactionAborted"}) >>

\* Mutant: a failure is passed on as it is, and Connect calls it unknown.
InternalErrorUnmapped(err) ==
    CASE Canceled \in err         -> "canceled"
      [] DeadlineExceeded \in err -> "deadline_exceeded"
      [] OTHER                    -> "unknown"

\* A client that went away, a deadline, or a failure whose cause is only logged.
InternalError(err) ==
    CASE Canceled \in err         -> "canceled"
      [] DeadlineExceeded \in err -> "deadline_exceeded"
      [] OTHER                    -> "internal"

\* ClientErrors.For: the first row that matches.
For(clientErrors, err) ==
    LET i == SelectInSeq(clientErrors, LAMBDA row : err \cap row.targets # {})
    IN  IF i = 0 THEN InternalError(err) ELSE clientErrors[i].code

\* writeError of the HTTP API by the code of each status, "none" when nothing
\* is written; the failures of the tenant boundary are not mapped.
WriteError(err) ==
    CASE err \cap {"tenantrepository.ErrTenantNotFound",
                   "repository.ErrTenantNotFound"} # {} -> "not_found"
      [] Canceled \in err         -> "none"
      [] DeadlineExceeded \in err -> "deadline_exceeded"
      [] OTHER                    -> "internal"

----------------------------------------------------------------------------
(* The enums of the wire.  A number this build does not know is read, and
   written, as unspecified.                                                  *)

WireRoles == {"ROLE_UNSPECIFIED", "ROLE_OWNER", "ROLE_STAFF", "ROLE_ADMIN"}
UnknownNumber == "4711"

roleDomain(role) ==
    CASE role = "ROLE_OWNER" -> "owner"
      [] role = "ROLE_STAFF" -> "staff"
      [] role = "ROLE_ADMIN" -> "admin"
      [] OTHER               -> "none"

roleProto(role) ==
    CASE role = "owner" -> "ROLE_OWNER"
      [] role = "staff" -> "ROLE_STAFF"
      [] role = "admin" -> "ROLE_ADMIN"
      [] OTHER          -> "ROLE_UNSPECIFIED"

StatusNames == [draft    |-> "EVENT_STATUS_DRAFT",
                open     |-> "EVENT_STATUS_OPEN",
                locked   |-> "EVENT_STATUS_LOCKED",
                closed   |-> "EVENT_STATUS_CLOSED",
                archived |-> "EVENT_STATUS_ARCHIVED"]

eventStatusProto(status) ==
    IF status \in DOMAIN StatusNames THEN StatusNames[status]
                                     ELSE "EVENT_STATUS_UNSPECIFIED"

eventStatusDomain(wire) ==
    LET named == {s \in DOMAIN StatusNames : StatusNames[s] = wire}
    IN  IF named = {} THEN "unspecified" ELSE CHOOSE s \in named : TRUE

tenantOwnershipStateProto(state) ==
    CASE state = "pending" -> "TENANT_OWNERSHIP_STATE_PENDING_OWNER"
      [] state = "owned"   -> "TENANT_OWNERSHIP_STATE_OWNED"
      [] OTHER             -> "TENANT_OWNERSHIP_STATE_UNSPECIFIED"
=============================================================================
