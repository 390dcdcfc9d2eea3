------------------------------ MODULE MCAccess ------------------------------
(***************************************************************************)
(* The two guards of the API on one instance: the password check with the  *)
(* lock of an account, and the way of a request through the middleware.    *)
(* They share no variable, so nothing is lost when each behaviour moves    *)
(* only one of them.                                                       *)
(***************************************************************************)
EXTENDS LoginLockout, Requests

VARIABLE moves    \* the one that does

accessVars == <<lockoutVars, vars, moves>>

Readers == {"ListChangeRequests", "GetChangeRequest"}

\* The duties of each role, among the operations the contract protects.
MCDuties ==
    [auditor  |-> Readers,
     files    |-> Readers \cup {"SimulateAclConversion", "ValidateConfiguration", "CancelJob",
                                "CreateShare", "PreviewShare", "CreateChangeRequest"},
     printing |-> Readers \cup {"CancelJob"},
     samba    |-> Readers \cup {"SimulateAclConversion", "TestDomain", "CancelJob",
                                "ServiceAction", "CreateShare", "PreviewShare",
                                "CreateChangeRequest", "ExecuteApprovedChangeRequest"},
     system   |-> DOMAIN Permission,
     security |-> Readers \cup {"ApproveChangeRequest", "RejectChangeRequest"},
     unknown  |-> {}]

MCAll == Operations

\* The hypothesis of the theorem about EffectIsEntitled.
ASSUME MCDutiesFit == DutiesFit

AccessInit ==
    /\ LockoutInit /\ Init
    /\ \/ moves = "request" /\ account = <<0, 0, Never, FALSE>>
       \/ moves = "lockout" /\ configuration = <<"local", TRUE, "system">>

OfRequest(action) == moves = "request" /\ action /\ UNCHANGED <<lockoutVars, moves>>

AccessNext ==
    \/ OfRequest(Next)
    \/ moves = "lockout" /\ LockoutNext /\ UNCHANGED <<vars, moves>>

AccessSpec ==
    /\ AccessInit /\ [][AccessNext]_accessVars
    /\ WF_accessVars(OfRequest(Serve)) /\ WF_accessVars(OfRequest(TimeoutExcept))
=============================================================================
