--------------------------- MODULE ActionCatalog ---------------------------
(***************************************************************************)
(* What services/actions knows about an action before it runs anything:    *)
(* the action types, the blast radius of each, the types that always need  *)
(* a human, the types that have an executor, and the two gates.            *)
(*                                                                         *)
(* Source: services/actions/app/models/action.py, services/blast_radius.py,*)
(* services/executor_registry.py and services/maturity.py.                 *)
(***************************************************************************)
EXTENDS Naturals

ActionType ==
    { "block_ip", "block_domain", "isolate_host", "disable_user",
      "reset_password", "kill_process", "quarantine_file",
      "capture_forensics", "add_ioc_to_blocklist", "notify_slack",
      "create_ticket", "run_playbook", "chatops_verify", "run_script",
      "allow_ip", "block_ioc", "run_av_scan", "suspend_session",
      "force_mfa", "search_siem", "create_notable_event",
      "sync_detection_rule", "update_watcher" }

ActionStatus ==
    { "pending", "awaiting_approval", "approved", "rejected", "running",
      "completed", "failed", "rolled_back" }

\* Types the map ACTION_BLAST_RADIUS puts at each level.
RadiusOf(t) ==
    CASE t \in {"notify_slack", "create_ticket", "chatops_verify",
                "search_siem"} -> "minimal"
      [] t \in {"quarantine_file", "capture_forensics",
                "add_ioc_to_blocklist", "run_av_scan",
                "create_notable_event"} -> "low"
      [] t \in {"isolate_host", "disable_user", "run_script",
                "suspend_session"} -> "high"
      [] OTHER -> "medium"

RadiusOrder == [ minimal |-> 0, low |-> 1, medium |-> 2,
                 high |-> 3, critical |-> 4 ]

AutoExecuteLimit == "medium"

ApprovalRequired ==
    { "isolate_host", "disable_user", "reset_password", "kill_process",
      "run_script", "suspend_session", "block_ioc", "sync_detection_rule" }

ExecutorRegistry ==
    ActionType \ {"capture_forensics", "add_ioc_to_blocklist", "run_playbook"}

\* Types whose executor only ever simulates: no client is called whatever
\* parameters are given.
SimulationOnly == {"block_domain", "create_ticket"}

\* Ungated types whose executor reports COMPLETED whatever the client brought
\* back, from a client that can come back without having acted: the
\* security-group client answers {"success": False} when boto3 is missing,
\* an RTR batch answers 2xx with its failures per host, and a factor that
\* Okta refuses to delete is only left out of a count.
Unconfirmed == {"block_ip", "allow_ip", "quarantine_file", "force_mfa"}

(***************************************************************************)
(* BlastRadiusGate.evaluate: the status a submitted action starts in.      *)
(***************************************************************************)
Evaluate(t) ==
    IF \/ t \in ApprovalRequired
       \/ RadiusOrder[RadiusOf(t)] > RadiusOrder[AutoExecuteLimit]
    THEN "awaiting_approval"
    ELSE "approved"

Gated(t) == Evaluate(t) = "awaiting_approval"

=============================================================================
