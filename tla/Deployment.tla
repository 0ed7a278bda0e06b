----------------------------- MODULE Deployment -----------------------------
(***************************************************************************)
(* What a deployment says of itself and what it then does: the scripts     *)
(* that vet its configuration before it starts, the blockers of            *)
(* services/system/readiness.ts and deployment.ts, the readiness probe     *)
(* with its timed checks (app/api/v1/ready), and the conditions on the     *)
(* configuration that a swap meets from its quote to its relay, each in    *)
(* the file that asserts it.  A process reads its environment once and for *)
(* all: a new configuration is a new process.                              *)
(***************************************************************************)
EXTENDS Integers, FiniteSets

CONSTANT Deviations   \* bound: settings that differ from Production's

(* The settings of env.ts that decide whether swaps are served.  "grpcUrls" *)
(* says that read endpoints are named, "publicRpc" that a public-good one  *)
(* is among them, "publicProtected" that the relay's endpoint is one;      *)
(* "appUrl" that NEXT_PUBLIC_APP_URL is named, "badOrigin" that it is then *)
(* no URL, or neither https nor local; "unknownProvider" that              *)
(* CETUS_ALLOWED_PROVIDERS has one the SDK does not know, "barredProvider" *)
(* one that is not for testnet; "longMargin" that minQuoteValidityMs is no *)
(* shorter than quoteTtlMs.                                                *)
Settings ==
  {"maintenance", "operations", "fee", "feeWallet", "requireSigned", "signingSecret",
   "requireSession", "sessionSecret", "appUrl", "requireOnchain", "package",
   "requireDedicated", "grpcUrls", "publicRpc", "publicProtected", "requireSwap",
   "persistence", "databaseUrl", "badOrigin", "unknownProvider", "barredProvider",
   "longMargin"}

Production ==
  Settings \ {"maintenance", "publicRpc", "publicProtected", "badOrigin",
              "unknownProvider", "barredProvider", "longMargin"}

VARIABLES
  config,    \* the network and the settings that are on
  up,        \* dependencies that answer
  checks,    \* the probe's checks of them
  verdict,   \* what the probe has answered
  swapPc     \* how far a swap has come on this deployment

deploymentVars == <<config, up, checks, verdict, swapPc>>

On(setting) == setting \in config.on
Dependencies == {"sui", "database"}

Configurations ==
  [network : {"mainnet", "testnet", "devnet"},
   on : {s \in SUBSET Settings :
          Cardinality((s \ Production) \cup (Production \ s)) <= Deviations}]

DeploymentTypeOK ==
  /\ config \in Configurations
  /\ up \subseteq Dependencies
  /\ checks \in [Dependencies -> {"none", "asked", "ok", "failed"}]
  /\ verdict \in {"none", "asked", "ready", "notReady"}
  /\ swapPc \in {"quote", "session", "build", "preflight", "execute", "served", "refused"}

DeploymentInit ==
  /\ config \in Configurations
  /\ up \in SUBSET Dependencies
  /\ checks = [d \in Dependencies |-> "none"]
  /\ verdict = "none" /\ swapPc = "quote"

-----------------------------------------------------------------------------
(* assertFeeConfiguration, isSwapExecutionConfigured *)
FeeConfigured == On("fee") => On("feeWallet")
ExecutionConfigured == FeeConfigured /\ config.network # "devnet"

(* getSwapOperationsState *)
OperationsEnabled == On("operations") /\ config.network # "devnet"

(* dedicatedRpcViolations; a network's fullnode stands in for endpoints    *)
(* that are not named.                                                     *)
DedicatedRpcViolated ==
  /\ On("requireDedicated") /\ config.network = "mainnet"
  /\ On("publicRpc") \/ ~On("grpcUrls") \/ On("publicProtected")

\* Mutant: the readiness of sessions forgets the origin they are bound to.
BlockedWithoutOrigin ==
  \/ ~OperationsEnabled \/ ~FeeConfigured
  \/ On("requireSigned") /\ ~On("signingSecret")
  \/ On("requireSession") /\ ~On("sessionSecret")
  \/ On("requireOnchain") /\ ~On("package")
  \/ DedicatedRpcViolated

(* getSwapReadiness: there is a blocker. *)
SwapBlocked ==
  \/ ~OperationsEnabled \/ ~FeeConfigured
  \/ On("requireSigned") /\ ~On("signingSecret")
  \/ On("requireSession") /\ ~(On("sessionSecret") /\ On("appUrl"))
  \/ On("requireOnchain") /\ ~On("package")
  \/ DedicatedRpcViolated

(* configuredOrigin, of an origin that is named. *)
OriginRefused == On("appUrl") /\ On("badOrigin")

ExecutionEnabled == ExecutionConfigured /\ ~SwapBlocked

(* getDeploymentStatus *)
AppReady == ~On("maintenance") /\ (On("requireSwap") => ExecutionEnabled)
SwapReady == ExecutionEnabled /\ ~On("maintenance")

-----------------------------------------------------------------------------
(* scripts/validate-env.mjs --production lets the configuration pass.      *)
EnvironmentValid ==
  /\ On("requireSwap") /\ On("fee") => On("feeWallet")
  /\ On("requireSigned") => On("signingSecret")
  /\ On("requireOnchain") => On("package")
  /\ On("requireSession") => On("sessionSecret") /\ On("appUrl")
  /\ ~OriginRefused
  /\ On("persistence") => On("databaseUrl")
  /\ config.network = "mainnet" =>
       /\ {"requireSwap", "requireDedicated", "requireSigned", "requireSession"} \subseteq config.on
       /\ On("fee") => On("requireOnchain")
       /\ ~(On("grpcUrls") /\ On("publicRpc"))

(* scripts/validate-deployment-profile.mjs *)
ProfileValid ==
  /\ config.network = "mainnet" =>
       {"appUrl", "grpcUrls", "feeWallet", "signingSecret", "sessionSecret", "package",
        "requireSigned", "requireSession", "requireOnchain", "requireDedicated",
        "requireSwap"} \subseteq config.on
  /\ config.network = "devnet" =>
       ~On("requireSwap") /\ (On("requireOnchain") => On("package"))

Vetted == EnvironmentValid /\ ProfileValid

-----------------------------------------------------------------------------
(* GET /ready *)
ProbeStarts ==
  /\ verdict = "none"
  /\ IF AppReady THEN verdict' = "asked" /\ checks' = [d \in Dependencies |-> "asked"]
     ELSE verdict' = "notReady" /\ UNCHANGED checks
  /\ UNCHANGED <<config, up, swapPc>>

(* Without persistence the database is not asked; with it, but without a   *)
(* URL, the check fails.                                                   *)
Responds(d) ==
  CASE d = "sui" -> "sui" \in up
    [] d = "database" ->
         On("persistence") => On("databaseUrl") /\ "database" \in up

CheckEnds(d) ==
  /\ checks[d] = "asked"
  /\ checks' = [checks EXCEPT ![d] = IF Responds(d) THEN "ok" ELSE "failed"]
  /\ UNCHANGED <<config, up, verdict, swapPc>>

(* The timer; an answer after it is not looked at. *)
CheckTimesOut(d) ==
  /\ checks[d] = "asked"
  /\ checks' = [checks EXCEPT ![d] = "failed"]
  /\ UNCHANGED <<config, up, verdict, swapPc>>

ProbeAnswers ==
  /\ verdict = "asked" /\ \A d \in Dependencies : checks[d] # "asked"
  /\ verdict' = IF \A d \in Dependencies : checks[d] = "ok" THEN "ready" ELSE "notReady"
  /\ UNCHANGED <<config, up, checks, swapPc>>

DependencyChanges ==
  /\ \E d \in Dependencies : up' = IF d \in up THEN up \ {d} ELSE up \cup {d}
  /\ UNCHANGED <<config, checks, verdict, swapPc>>

-----------------------------------------------------------------------------
(* What the configuration has a swap refused for, step by step. *)

(* resolveProviders, for a swap that names none itself. *)
ProvidersRefused ==
  On("unknownProvider") \/ (config.network = "testnet" /\ On("barredProvider"))

QuoteServed ==
  /\ FeeConfigured /\ OperationsEnabled /\ ~ProvidersRefused
  /\ On("requireSigned") => On("signingSecret")

SessionServed == On("sessionSecret") /\ On("appUrl") /\ ~OriginRefused

(* The quote has the margin left when it is verified. *)
QuoteLives == ~On("longMargin")

BuildAllowed ==
  /\ OperationsEnabled /\ FeeConfigured /\ QuoteLives
  /\ On("requireOnchain") => On("package")
  /\ On("requireSigned") => On("signingSecret")

RelayAllowed ==
  OperationsEnabled /\ QuoteLives /\ (On("requireSigned") => On("signingSecret"))

SwapStep(from, allowed, to) ==
  /\ swapPc = from /\ swapPc' = (IF allowed THEN to ELSE "refused")
  /\ UNCHANGED <<config, up, checks, verdict>>

SwapProceeds ==
  \/ SwapStep("quote", QuoteServed, "session")
  \/ SwapStep("session", On("requireSession") => SessionServed, "build")
  \/ SwapStep("build", BuildAllowed, "preflight")
  \/ SwapStep("preflight", RelayAllowed, "execute")
  \/ SwapStep("execute", RelayAllowed, "served")

DeploymentNext ==
  \/ ProbeStarts \/ ProbeAnswers \/ DependencyChanges \/ SwapProceeds
  \/ \E d \in Dependencies : CheckEnds(d) \/ CheckTimesOut(d)

DeploymentSpec == DeploymentInit /\ [][DeploymentNext]_deploymentVars

-----------------------------------------------------------------------------
Vouched ==
  \/ SwapReady
  \/ verdict = "ready" /\ On("requireSwap")
  \/ Vetted /\ On("requireSwap") /\ On("operations")

(* What neither the blockers nor the scripts look at, and what only the    *)
(* scripts do.                                                             *)
Overlooked == ProvidersRefused \/ ~QuoteLives \/ (~Vetted /\ OriginRefused)

(* A deployment that is vouched for, to its pages, by its probe or by the  *)
(* scripts that vet it, refuses a swap by its configuration only for       *)
(* providers that are not to be had, for a margin that outlasts its        *)
(* quotes, or, if the scripts were not run, for an origin that sessions do *)
(* not accept: of all other settings the scripts, the list of blockers and *)
(* the assertions on the way, each in a file of its own, say the same.     *)
ReadyMeansServing == Vouched /\ swapPc = "refused" => Overlooked

(* readiness.ts:55 reports executionEnabled, and the scripts pass, though  *)
(* every swap is refused: readiness.ts:37 and 49 ask only whether an       *)
(* origin is named and whether providers are, and nothing compares the     *)
(* margin of env.ts:136 with the life of env.ts:132.                       *)
NothingIsOverlooked == Vouched => swapPc # "refused"

(* "Production validation is fail-closed.  It requires ... a dedicated     *)
(* Mainnet gRPC provider when the dedicated-RPC gate is enabled"           *)
(* (docs/RC15-ENVIRONMENT-AND-BUILD-GATES.md:22): it does not, when no     *)
(* endpoint is named, nor for the endpoint of the relay.                   *)
ProductionIsDedicated == EnvironmentValid => ~DedicatedRpcViolated
=============================================================================
