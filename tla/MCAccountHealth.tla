--------------------------- MODULE MCAccountHealth ---------------------------
(***************************************************************************)
(* One account and the SSO validation loop, against what README.md:342     *)
(* says of the loop: only the death of a session or a credential adds up   *)
(* to a deletion.                                                          *)
(***************************************************************************)
EXTENDS AccountHealth

VARIABLE proved  \* history: per account, the validations that proved its session dead

MCDeployments == {[accounts |-> {1}, jobs |-> {}, includeDisabled |-> FALSE,
                   sweep |-> FALSE, ops |-> 1]}

ProvedInit == Init /\ proved = [a \in Account |-> 0]
ProvedNext ==
    /\ Next
    /\ proved' = [a \in Account |->
          IF ProbeSSO(a, "terminal") THEN Upto(proved[a] + 1, SsoMaxFailures) ELSE proved[a]]
ProvedSpec == ProvedInit /\ [][ProvedNext]_<<vars, proved>>

(* The loop deletes an account only after SsoMaxFailures validations that    *)
(* proved its session dead, whenever they were.  recordSSOValidationFailure  *)
(* adds blocks, rate limits and network errors to the same count.            *)
OnlyDeathsAddUp ==
    [][\A a \in Account : DeleteSSO(a) => proved[a] >= SsoMaxFailures]_<<vars, proved>>
=============================================================================
