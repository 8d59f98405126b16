----------------------------- MODULE MCServices -----------------------------
(***************************************************************************)
(* The plugins from both ends, each part on its own: the host's connection *)
(* to a plugin process, an extension plugin with tools, a provider plugin, *)
(* and a provider's OAuth runtime with the host that stores its tokens.  A *)
(* behaviour is one of them; the others do not move.                       *)
(***************************************************************************)
EXTENDS PluginConnection, ToolService, ProviderService, OAuthRuntime, TLC

CONSTANTS c1, c2, x1, q1, t1, t2, t3, f1, xt, xf, a1, r1, r2, m1, s1, b1

VARIABLE part       \* the part that runs

MCSessionOf == [r \in {c1, c2, x1} |-> s1]
MCKeyOf == [r \in {t1, t2, t3, xt} |-> s1] @@ [r \in {f1, xf} |-> b1]

servicesVars == <<part, vars, toolVars, providerVars, oauthVars>>

ServicesInit ==
    /\ part \in {"connection", "tools", "provider", "oauth"}
    /\ IF part = "tools" THEN ToolInit ELSE ToolRest("off")
    /\ IF part = "provider" THEN ProviderInit ELSE ProviderRest("off")
    /\ IF part = "oauth" THEN OAuthInit ELSE OAuthRest("off")
    /\ Init /\ (part = "connection" \/ kind = "extension")

(* Bound: the host sends the second invocation or the search, not both.    *)
OneOrTheOther == work'[c2] = "unsent" \/ work'[q1] = "unsent"

ServicesNext ==
    /\ UNCHANGED part
    /\ \/ part = "connection" /\ Next /\ UNCHANGED <<toolVars, providerVars, oauthVars>>
       \/ /\ part = "tools" /\ ToolNext /\ OneOrTheOther
          /\ UNCHANGED <<vars, providerVars, oauthVars>>
       \/ part = "provider" /\ ProviderNext /\ UNCHANGED <<vars, toolVars, oauthVars>>
       \/ part = "oauth" /\ OAuthNext /\ UNCHANGED <<vars, toolVars, providerVars>>

ServicesSpec ==
    /\ ServicesInit /\ [][ServicesNext]_servicesVars
    /\ ToolFairness /\ ProviderFairness /\ OAuthFairness /\ Scheduled

-----------------------------------------------------------------------------
(* What a plugin has begun comes to an end: every request that is read is  *)
(* answered and every command that is started ends, not even one whose     *)
(* cancel missed its process runs for ever; a cancelled chat or flow ends; *)
(* and nobody waits for ever for the refresh lock of a dropped chat.       *)
PluginWorkEnds == ToolsEnd /\ CancelledTasksEnd /\ RefreshEnds
=============================================================================
