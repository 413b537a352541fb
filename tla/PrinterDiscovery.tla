-------------------------- MODULE PrinterDiscovery --------------------------
(***************************************************************************)
(* Printer discovery and printer profiles of one agent binding             *)
(* (services/printer_profiles.py, wbcz/printer_profiles.py).  A user asks  *)
(* for a discovery, the agent leases the job, looks at the printers of its *)
(* machine and posts what it saw; a user approves an observation, which    *)
(* makes or replaces the profile that labels are printed with.  Printers   *)
(* change, leases run out and old observations stay approvable meanwhile.  *)
(*                                                                         *)
(* A printer's shape stands for its fingerprint and its capability hash;   *)
(* capability_revision and last_seen_at are not kept.                      *)
(***************************************************************************)
EXTENDS Naturals, FiniteSets

CONSTANTS
  Printers,
  Shapes,       \* what a printer can look like
  UsableShapes, \* square DPI in range, printable area inside the media
  MaxRuns       \* discoveries requested in a behaviour

ASSUME PrinterDiscoveryAssumption == UsableShapes \subseteq Shapes /\ MaxRuns \in Nat

VARIABLES
  looks,    \* of each printer of the machine: a shape, "broken" or "gone"
  fresh,    \* the binding is ACTIVE, compatible, seen lately and capable
  run,      \* printer_discovery_runs: state
  job,      \* agent_jobs: state; "LAPSED" is LEASED past lease_expires_at
  obs,      \* printer_discovery_observations of a run
  profile,  \* [state, shape] of each agent_printer_id
  agent,    \* the discovery the agent works on: [run, seen]
  latest,   \* the discovery that completed last, 0 before the first
  approved  \* printers approved since

printerVars == <<looks, fresh, run, job, obs, profile, agent, latest, approved>>

Runs == 1 .. MaxRuns
Open == {"PENDING", "RUNNING"}
NoProfile == [state |-> "none", shape |-> "none"]
Unseen == [p \in Printers |-> "absent"]
NoWork == [run |-> 0, seen |-> Unseen]

\* What enumerate_printers and inspect_printer find: a printer with its
\* shape, one whose inspection raises, or none.
Look == Shapes \cup {"broken", "gone"}

\* "broken" is observed as ERROR or UNAVAILABLE; "absent" is not observed.
Seen == Shapes \cup {"broken", "absent"}

PrinterTypeOK ==
  /\ looks \in [Printers -> Look]
  /\ fresh \in BOOLEAN
  /\ run \in [Runs -> {"none", "PENDING", "RUNNING", "COMPLETED", "FAILED"}]
  /\ job \in [Runs -> {"none", "PENDING", "LEASED", "LAPSED", "COMPLETED"}]
  /\ \A r \in Runs : (run[r] \in Open) = (job[r] \in {"PENDING", "LEASED", "LAPSED"})
  /\ obs \in [Runs -> [Printers -> Seen]]
  /\ profile \in [Printers ->
       [state : {"ACTIVE", "INCOMPATIBLE", "STALE", "MISSING", "DISABLED"}, shape : Shapes]
         \cup {NoProfile}]
  /\ agent \in [run : Runs \cup {0}, seen : [Printers -> Seen]]
  /\ latest \in Runs \cup {0}
  /\ approved \in SUBSET Printers

PrinterInit ==
  /\ looks = [p \in Printers |-> "gone"]
  /\ fresh = TRUE
  /\ run = [r \in Runs |-> "none"]
  /\ job = [r \in Runs |-> "none"]
  /\ obs = [r \in Runs |-> Unseen]
  /\ profile = [p \in Printers |-> NoProfile]
  /\ agent = NoWork
  /\ latest = 0
  /\ approved = {}

----------------------------------------------------------------------------

PrinterChanges(p, s) ==
  /\ looks[p] # s
  /\ looks' = [looks EXCEPT ![p] = s]
  /\ UNCHANGED <<fresh, run, job, obs, profile, agent, latest, approved>>

\* The binding stops, or resumes, reporting.
BindingGoesQuiet ==
  /\ fresh /\ fresh' = FALSE
  /\ UNCHANGED <<looks, run, job, obs, profile, agent, latest, approved>>

BindingReports ==
  /\ ~fresh /\ fresh' = TRUE
  /\ UNCHANGED <<looks, run, job, obs, profile, agent, latest, approved>>

OpenRun == {r \in Runs : run[r] \in Open}

\* request_discovery, and refresh_profile, which ends in it; the binding is
\* locked.  With a discovery open it answers that one.
RequestDiscovery(r) ==
  /\ fresh /\ OpenRun = {}
  /\ run[r] = "none" /\ \A q \in Runs : q < r => run[q] # "none"
  /\ run' = [run EXCEPT ![r] = "PENDING"]
  /\ job' = [job EXCEPT ![r] = "PENDING"]
  /\ UNCHANGED <<looks, fresh, obs, profile, agent, latest, approved>>

LeaseLapses(r) ==
  /\ job[r] = "LEASED"
  /\ job' = [job EXCEPT ![r] = "LAPSED"]
  /\ UNCHANGED <<looks, fresh, run, obs, profile, agent, latest, approved>>

\* What BoundedPrinterDiscovery makes of the printers: one that fails or is
\* slow to answer is reported as such and does not spoil the others.
Discovered(slow) ==
  [p \in Printers |-> IF looks[p] = "gone" THEN "absent"
                      ELSE IF p \in slow THEN "broken" ELSE looks[p]]

\* The agent takes the job and looks at its printers.
FetchAgentJob(r, slow) ==
  /\ agent = NoWork /\ fresh
  /\ job[r] \in {"PENDING", "LAPSED"}
  /\ job' = [job EXCEPT ![r] = "LEASED"]
  /\ run' = [run EXCEPT ![r] = "RUNNING"]
  /\ agent' = [run |-> r, seen |-> Discovered(slow)]
  /\ UNCHANGED <<looks, fresh, obs, profile, latest, approved>>

\* The agent dies, or its late result is refused.
AgentStops ==
  /\ agent # NoWork /\ agent' = NoWork
  /\ UNCHANGED <<looks, fresh, run, job, obs, profile, latest, approved>>

Fits(shape) == IF shape \in UsableShapes THEN "ACTIVE" ELSE "INCOMPATIBLE"

\* Wrong variant: profiles of printers that were not seen are left alone.
ReconciledIfSeen(prof, seen) ==
  IF prof.state \in {"none", "DISABLED"} \/ seen = "absent" THEN prof
  ELSE [prof EXCEPT !.state = IF seen = "broken" THEN "MISSING"
                              ELSE IF seen # prof.shape THEN "STALE" ELSE Fits(seen)]

\* _reconcile_profile, and the MISSING mark of what was not seen.
Reconciled(prof, seen) ==
  IF prof.state \in {"none", "DISABLED"} THEN prof
  ELSE [prof EXCEPT !.state = IF seen \in {"absent", "broken"} THEN "MISSING"
                              ELSE IF seen # prof.shape THEN "STALE" ELSE Fits(seen)]

\* The answer may be lost; a repeated result finds the job COMPLETED.
CompleteAgentJob ==
  LET r == agent.run
  IN  /\ agent # NoWork /\ fresh
      /\ job[r] = "LEASED"
      /\ obs' = [obs EXCEPT ![r] = agent.seen]
      /\ profile' = [p \in Printers |-> Reconciled(profile[p], agent.seen[p])]
      /\ run' = [run EXCEPT ![r] = "COMPLETED"]
      /\ job' = [job EXCEPT ![r] = "COMPLETED"]
      /\ latest' = r /\ approved' = {}
      /\ agent' = NoWork
      /\ UNCHANGED <<looks, fresh>>

\* The printers could not be enumerated; the binding need not be fresh.
FailAgentJob ==
  LET r == agent.run
  IN  /\ agent # NoWork
      /\ job[r] = "LEASED"
      /\ run' = [run EXCEPT ![r] = "FAILED"]
      /\ job' = [job EXCEPT ![r] = "COMPLETED"]
      /\ agent' = NoWork
      /\ UNCHANGED <<looks, fresh, obs, profile, latest, approved>>

\* approve_observation takes any observation, however old.
ApproveObservation(r, p) ==
  /\ fresh /\ obs[r][p] \in Shapes
  /\ profile' = [profile EXCEPT ![p] = [state |-> Fits(obs[r][p]), shape |-> obs[r][p]]]
  /\ approved' = approved \cup {p}
  /\ UNCHANGED <<looks, fresh, run, job, obs, agent, latest>>

DisableProfile(p) ==
  /\ profile[p] # NoProfile
  /\ profile' = [profile EXCEPT ![p].state = "DISABLED"]
  /\ UNCHANGED <<looks, fresh, run, job, obs, agent, latest, approved>>

PrinterNext ==
  \/ \E p \in Printers, s \in Look : PrinterChanges(p, s)
  \/ BindingGoesQuiet \/ BindingReports
  \/ \E r \in Runs : RequestDiscovery(r) \/ LeaseLapses(r)
  \/ \E r \in Runs, slow \in SUBSET Printers : FetchAgentJob(r, slow)
  \/ AgentStops \/ CompleteAgentJob \/ FailAgentJob
  \/ \E r \in Runs, p \in Printers : ApproveObservation(r, p)
  \/ \E p \in Printers : DisableProfile(p)

PrinterSpec == PrinterInit /\ [][PrinterNext]_printerVars

----------------------------------------------------------------------------

\* A profile that labels may be printed with has a usable shape, and the
\* discovery that completed last saw its printer with exactly that shape,
\* unless a user approved one since - from any discovery, also an older one
\* (complete_agent_job and _reconcile_profile mark the others STALE, MISSING
\* or INCOMPATIBLE).
ActiveMeansSeen ==
  \A p \in Printers : profile[p].state = "ACTIVE" =>
    /\ profile[p].shape \in UsableShapes
    /\ \E r \in Runs : obs[r][p] = profile[p].shape /\ (r = latest \/ p \in approved)

============================================================================
