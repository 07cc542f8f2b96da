------------------------------- MODULE Shared -------------------------------
(***************************************************************************)
(* Records that several activities read and write back: how an account     *)
(* leaves the pool (AccountHealth), its quota (AccountQuota), and the      *)
(* configuration (ConfigStore).  The components share no variable; a       *)
(* behaviour is one of its focus, the others stay as they began.           *)
(***************************************************************************)
EXTENDS Integers, FiniteSets

CONSTANTS Focus,  \* the components a behaviour may be of
          \* AccountHealth
          Account, MarkJob, Deployments, IcThreshold, SsoMaxFailures, MinAge, PageSize, MaxDeletes, Absent,
          \* AccountQuota
          Call, FastLimit, ConsoleLimit, AutoTotal, ConsoleMark, Span, MaxCalls, NoReset, None,
          \* ConfigStore
          Process, Defaults, Environment, Patches, StartupOnly, Accepts, Cleaned, Kinds,
          MaxWrites, MaxStoreFaults

VARIABLES focus,
          deployment, health, dead, marks, ssoPage, ssoBatch, ssoNext, cleaning,
          icSeen, ssoSeen, disabledBy, healthOps,
          row, calls, resetting, onDemand, used, again, started,
          kind, overrides, version, asked, snaps, mutex, threads, writes, storeFaults

Health == INSTANCE AccountHealth
Quota == INSTANCE AccountQuota
Config == INSTANCE ConfigStore

ASSUME SharedAssumption ==
    /\ IsFiniteSet(Account) /\ Account \subseteq Int /\ Absent \notin Int
    /\ Deployments \subseteq [accounts : SUBSET Account, jobs : SUBSET MarkJob,
                              includeDisabled : BOOLEAN, sweep : BOOLEAN, ops : Nat]
    /\ IcThreshold \in Nat /\ SsoMaxFailures \in Nat /\ MinAge \in Nat
    /\ PageSize \in Nat \ {0} /\ MaxDeletes \in Nat
    /\ FastLimit \in [{"basic", "super"} -> Nat] /\ ConsoleLimit \in Nat /\ AutoTotal \in Nat /\ Span \in Nat
    /\ MaxCalls \in Nat /\ NoReset \notin Int
    /\ None \notin Call /\ None \notin Quota!Rows /\ None \notin Quota!Windows
    /\ None \notin Quota!Answers
    /\ MaxWrites \in Nat /\ MaxStoreFaults \in Nat

healthVars == <<deployment, health, dead, marks, ssoPage, ssoBatch, ssoNext, cleaning,
                icSeen, ssoSeen, disabledBy, healthOps>>
quotaVars == <<row, calls, resetting, onDemand, used, again, started>>
configVars == <<kind, overrides, version, asked, snaps, mutex, threads, writes, storeFaults>>
vars == <<focus, healthVars, quotaVars, configVars>>

(* Only the component in focus moves. *)
InHealth == focus = "health" /\ UNCHANGED <<focus, quotaVars, configVars>>
InQuota == focus = "quota" /\ UNCHANGED <<focus, healthVars, configVars>>
InConfig == focus = "config" /\ UNCHANGED <<focus, healthVars, quotaVars>>

Init ==
    /\ focus \in Focus
    /\ Health!Init /\ Quota!Init /\ Config!Init
    /\ focus # "health" => ~deployment.includeDisabled /\ ~deployment.sweep
    /\ focus # "quota" => row.quota.console.rem > 0
    /\ focus # "config" => kind = "toml"

Next ==
    \/ InHealth /\ Health!Next
    \/ InQuota /\ Quota!Next
    \/ InConfig /\ Config!Next

Spec == Init /\ [][Next]_vars

-----------------------------------------------------------------------------
(* MarkAccountInvalidCredentials, ValidateSSOBatch, RunExpiredAccountAutoClean *)
(* and the operator overwrite each other's rows, and refreshes patch rows    *)
(* they read seconds ago: an account is deleted only for what upstream or    *)
(* the operator did to it, and only an import brings it back.  Causes are    *)
(* the failures the code counts, more than README.md names: soft validations *)
(* and answers "invalid credentials" with successes in between.              *)
StatusForCause == Health!DeletedForCause /\ Quota!OnlyImportRevives

(* No window promises more than its total, no use is lost or counted twice   *)
(* (what an edit of the row adds again apart) and the flag of the on-demand  *)
(* refresh is held only as long as its call, whatever order the reads and    *)
(* the patches of refreshes, uses and resets take.                           *)
CountsAreKept == Quota!CountsAreKept /\ Health!TypeOK

(* A process that carries the store's version has the store's data, though   *)
(* it reads them by two calls with writes in between (ConfigSnapshot.Load);  *)
(* with a shared store no acknowledged patch is undone by another process,   *)
(* and an administrator reads back what was just written.                    *)
ConfigIsKept == Config!ConfigIsKept
=============================================================================
