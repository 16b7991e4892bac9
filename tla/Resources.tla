----------------------------- MODULE Resources -----------------------------
(***************************************************************************)
(* The download tickets of the corpus databases (resource_service.py,      *)
(* resource_ticket.py, routers/resources.py), beside everything that       *)
(* changes the account they were issued to.  A ticket is signed and not    *)
(* stored: only its expiry, the configured version and the check of        *)
(* account and device at the download stand against it.                    *)
(***************************************************************************)
EXTENDS Accounts

CONSTANT Versions   \* versions of the resource that are configured over time

VARIABLES
  version,   \* configured version; a change is a restart
  ticket     \* one ticket, or None

resourceVars == <<vars, version, ticket>>

\* ended is history: its user was signed out by force since, and not signed in again.
Ticket == [user : Users, version : Versions, ended : BOOLEAN, open : BOOLEAN]

ResourceInit == Init /\ version \in Versions /\ ticket = None

\* authorizeResourceAccess.  (Mutant: the device is not looked up.)
AuthorizedAccount(u) == Active(u)
Authorized(u) == Active(u) /\ u \in device

NewTicket(u) == [user |-> u, version |-> version, ended |-> FALSE, open |-> FALSE]

\* buildResourceManifests: a ticket for the version configured.
Manifests(u) == Authorized(u) /\ ticket' = NewTicket(u)

\* bootstrapResources; requireUser asks for the same account and device.
Bootstrap(u) ==
  /\ ticket = None
  /\ Manifests(u)
  /\ UNCHANGED <<vars, version>>

\* verifyResourceTicket.  (The signature and the resource's key are left out.)
Valid == ticket # None /\ ticket.version = version

\* downloadResource: the ticket, then the account, then the stream, which nothing
\* interrupts.
Download ==
  /\ Valid /\ ~ticket.open
  /\ Authorized(ticket.user)
  /\ ticket' = [ticket EXCEPT !.open = TRUE]
  /\ UNCHANGED <<vars, version>>

\* The stream ends; the ticket may be presented again.
DownloadEnds ==
  /\ ticket # None /\ ticket.open
  /\ ticket' = [ticket EXCEPT !.open = FALSE]
  /\ UNCHANGED <<vars, version>>

Expires == ticket # None /\ ticket' = None /\ UNCHANGED <<vars, version>>

Redeploy ==
  /\ version' \in Versions \ {version}
  /\ ticket' = IF ticket = None THEN None ELSE [ticket EXCEPT !.open = FALSE]
  /\ UNCHANGED vars

SignedOut == {u \in Users : (u \in device /\ u \notin device') \/ (Active(u) /\ ~Active(u)')}
SignedIn == device' \ device

AccountStep ==
  /\ Next /\ UNCHANGED version
  /\ ticket' = IF ticket = None THEN None
               ELSE [ticket EXCEPT !.ended = \/ ticket.user \in SignedOut
                                             \/ @ /\ ticket.user \notin SignedIn]

ResourceNext ==
  AccountStep \/ (\E u \in Users : Bootstrap(u)) \/ Download \/ DownloadEnds \/ Expires \/ Redeploy

ResourceSpec == ResourceInit /\ [][ResourceNext]_resourceVars

-----------------------------------------------------------------------------
\* A ticket is worth nothing once its user was signed out by force - by a new status, a
\* deletion, a revocation, whoever asked for it - also after the account is enabled again,
\* until that device is signed in anew (authorizeResourceAccess asks for both).
TicketsEnd ==
  [][ticket # None /\ ticket' # None /\ ~ticket.open /\ ticket'.open => ~ticket.ended]_resourceVars
=============================================================================
