------------------------------- MODULE Config -------------------------------
(***************************************************************************)
(* The configuration of the replication controller (pkg/config/config.go)  *)
(* and its reload (cmd/replication-controller/main.go): the mounted config *)
(* file names the remote clusters and, for each, a secret with the         *)
(* credentials.  A change of the file or of a secret loads everything      *)
(* anew, under Config.Lock, while the file and the secrets may change      *)
(* again.  Reconciles take the same lock to get a connection.              *)
(*                                                                         *)
(* A credential is represented by whether it is the one in the secret now. *)
(* The secrets are those of the informer's cache, which updates read: a    *)
(* change arrives there together with its notification.                    *)
(***************************************************************************)
CONSTANTS
  Clusters,    \* remote clusters; each stands for its secret, too
  Workers      \* reconciles that ask for connections

VARIABLES
  file,        \* the mounted file: whether it parses, and its targets
  secrets,     \* the secrets that exist
  conf,        \* Config.repConfig
  invalid,     \* isInInvalidState
  event,       \* the last event published on the controller's pod
  changed,     \* the watcher of the file has not been served yet
  queue,       \* secrets in the work queue of the secret controller
  upd,         \* the update that holds Config.Lock
  failed,      \* the last update returned an error
  waiting      \* the workers that ask for a connection

inputs == <<file, secrets>>
vars == <<inputs, conf, invalid, event, changed, queue, upd, failed, waiting>>

\* The targets, those of them whose credential is not the secret's, and the verdict.
Loaded == [targets : SUBSET Clusters, stale : SUBSET Clusters, ok : BOOLEAN]

Update == [pc : {"idle", "read", "build", "verify", "publish", "apply"},
           todo : SUBSET Clusters,      \* targets whose secret is still to be read
           new : Loaded]

Nothing == [targets |-> {}, stale |-> {}, ok |-> TRUE]
Idle == [pc |-> "idle", todo |-> {}, new |-> Nothing]

Readable == [parses : {TRUE}, targets : SUBSET Clusters]
Unreadable == [parses |-> FALSE, targets |-> {}]

\* GetConfig loaded a file at start-up; the controller does not start without one, nor
\* when the event for an invalid one cannot be published.  The informer then reports every
\* secret there is.
Init ==
  /\ file \in Readable
  /\ secrets \in {s \in SUBSET Clusters : file.targets \subseteq s}
  /\ \E verdict \in BOOLEAN :
       /\ conf = [targets |-> file.targets, stale |-> {}, ok |-> verdict]
       /\ invalid = ~verdict
       /\ event = IF verdict THEN "none" ELSE "Invalid"
  /\ changed = FALSE /\ queue = secrets /\ upd = Idle /\ failed = FALSE
  /\ waiting = {}

-----------------------------------------------------------------------------
(* Taking Config.Lock.                                                       *)

Free == upd.pc = "idle"

\* processConfigMapChanges, UpdateConfigMap.
ProcessConfigMapChanges ==
  /\ Free /\ changed
  /\ changed' = FALSE
  /\ upd' = [Idle EXCEPT !.pc = "read"]
  /\ UNCHANGED <<inputs, conf, invalid, event, queue, failed, waiting>>

\* Mutant: the secret is compared with the targets before the lock is taken.
CheckSecretUnlocked(c) ==
  /\ c \in queue
  /\ \/ c \in conf.targets /\ Free /\ upd' = [Idle EXCEPT !.pc = "read"]
     \/ c \notin conf.targets /\ UNCHANGED upd
  /\ queue' = queue \ {c}
  /\ UNCHANGED <<inputs, conf, invalid, event, changed, failed, waiting>>

\* reconcileSecretUpdates, UpdateConfigOnSecretEvent: only secrets of the targets in use
\* matter.
UpdateConfigOnSecretEvent(c) ==
  /\ Free /\ c \in queue
  /\ upd' = IF c \in conf.targets THEN [Idle EXCEPT !.pc = "read"] ELSE upd
  /\ queue' = queue \ {c}
  /\ UNCHANGED <<inputs, conf, invalid, event, changed, failed, waiting>>

-----------------------------------------------------------------------------
(* updateConfig and getReplicationConfig, with the lock held.                *)

ReadConfigFile ==
  /\ upd.pc = "read" /\ file.parses
  /\ upd' = [pc |-> "build", todo |-> file.targets,
             new |-> [Nothing EXCEPT !.targets = file.targets]]
  /\ UNCHANGED <<inputs, conf, invalid, event, changed, queue, failed, waiting>>

\* getConnHandler, for one target: its secret becomes a REST config.
BuildRestConfig(c) ==
  /\ upd.pc = "build" /\ c \in upd.todo /\ c \in secrets
  /\ upd' = [upd EXCEPT !.todo = @ \ {c}]
  /\ UNCHANGED <<inputs, conf, invalid, event, changed, queue, failed, waiting>>

\* The connection to the own cluster is added, and the handler is complete.
NewReplicationConfig ==
  /\ upd.pc = "build" /\ upd.todo = {}
  /\ upd' = [upd EXCEPT !.pc = "verify"]
  /\ UNCHANGED <<inputs, conf, invalid, event, changed, queue, failed, waiting>>

\* The entries of the file are checked, then every cluster is asked for the CRD of the
\* groups.
VerifyConfig ==
  /\ upd.pc = "verify"
  /\ \E verdict \in BOOLEAN :
       upd' = [upd EXCEPT !.pc = IF verdict /\ ~invalid THEN "apply" ELSE "publish",
                          !.new.ok = verdict]
  /\ UNCHANGED <<inputs, conf, invalid, event, changed, queue, failed, waiting>>

\* Mutant: an event that cannot be published is no error.
PublishBestEffort ==
  /\ upd.pc = "publish"
  /\ invalid' = ~upd.new.ok
  /\ event' \in {event, IF upd.new.ok THEN "Correct" ELSE "Invalid"}
  /\ upd' = [upd EXCEPT !.pc = "apply"]
  /\ UNCHANGED <<inputs, conf, changed, queue, failed, waiting>>

\* Mutant: the flag is not reset.
PublishKeepsFlag ==
  /\ upd.pc = "publish"
  /\ invalid' = TRUE
  /\ event' = IF upd.new.ok THEN "Correct" ELSE "Invalid"
  /\ upd' = [upd EXCEPT !.pc = "apply"]
  /\ UNCHANGED <<inputs, conf, changed, queue, failed, waiting>>

\* The flag is set before the result of PublishControllerEvent is looked at; when that
\* failed, the update ends.
Publish ==
  /\ upd.pc = "publish"
  /\ invalid' = ~upd.new.ok
  /\ \/ /\ event' = IF upd.new.ok THEN "Correct" ELSE "Invalid"
        /\ upd' = [upd EXCEPT !.pc = "apply"]
        /\ UNCHANGED failed
     \/ upd' = Idle /\ failed' = TRUE /\ UNCHANGED event
  /\ UNCHANGED <<inputs, conf, changed, queue, waiting>>

\* The new configuration replaces the old one and the lock is released.
Apply ==
  /\ upd.pc = "apply"
  /\ conf' = upd.new
  /\ upd' = Idle /\ failed' = FALSE
  /\ UNCHANGED <<inputs, invalid, event, changed, queue, waiting>>

\* Mutant: what cannot be read is read again, with the lock held.
UpdateRetries ==
  /\ upd.pc \in {"read", "build"}
  /\ failed' = TRUE
  /\ UNCHANGED <<inputs, conf, invalid, event, changed, queue, upd, waiting>>

\* The file or a secret cannot be read or used.  The error is logged; neither caller
\* tries again.
UpdateFails ==
  /\ upd.pc \in {"read", "build"}
  /\ upd' = Idle /\ failed' = TRUE
  /\ UNCHANGED <<inputs, conf, invalid, event, changed, queue, waiting>>

-----------------------------------------------------------------------------
(* Connections, and the changes from outside.                                *)

RequestConnection(w) ==
  /\ w \notin waiting
  /\ waiting' = waiting \cup {w}
  /\ UNCHANGED <<inputs, conf, invalid, event, changed, queue, upd, failed>>

\* Config.GetConnection: a client, or an error for a cluster that is no target.
GetConnection(w) ==
  /\ w \in waiting /\ Free
  /\ waiting' = waiting \ {w}
  /\ UNCHANGED <<inputs, conf, invalid, event, changed, queue, upd, failed>>

EditFile ==
  /\ file' \in Readable \cup {Unreadable}
  /\ changed' = TRUE
  /\ UNCHANGED <<secrets, conf, invalid, event, queue, upd, failed, waiting>>

\* A secret is created, changed or deleted.
EditSecret(c) ==
  /\ secrets' \in {secrets \cup {c}, secrets \ {c}}
  /\ conf' = [conf EXCEPT !.stale = @ \cup ({c} \cap conf.targets)]
  /\ upd' = [upd EXCEPT !.new.stale = @ \cup ({c} \cap (upd.new.targets \ upd.todo))]
  /\ queue' = queue \cup {c}
  /\ UNCHANGED <<file, invalid, event, changed, failed, waiting>>

-----------------------------------------------------------------------------

Reload ==
  \/ ReadConfigFile \/ (\E c \in Clusters : BuildRestConfig(c)) \/ NewReplicationConfig
  \/ VerifyConfig \/ Publish \/ Apply \/ UpdateFails

Next ==
  \/ ProcessConfigMapChanges
  \/ \E c \in Clusters : UpdateConfigOnSecretEvent(c) \/ EditSecret(c)
  \/ Reload \/ EditFile
  \/ \E w \in Workers : RequestConnection(w) \/ GetConnection(w)

Spec == Init /\ [][Next]_vars

\* An update makes progress: each of its calls returns, the ones to other clusters after
\* the timeout of the dialer at the latest.  sync.Mutex serves a goroutine that has been
\* waiting for long before newcomers, so a request for the lock is not passed over for
\* ever.
Fairness == WF_vars(Reload) /\ \A w \in Workers : SF_vars(GetConnection(w))

LiveSpec == Spec /\ Fairness
-----------------------------------------------------------------------------

\* Type invariant.
TypeOK ==
  /\ file \in Readable \cup {Unreadable}
  /\ secrets \subseteq Clusters /\ queue \subseteq Clusters
  /\ conf \in Loaded /\ upd \in Update
  /\ conf.stale \subseteq conf.targets /\ upd.new.stale \subseteq upd.new.targets
  /\ invalid \in BOOLEAN /\ changed \in BOOLEAN /\ failed \in BOOLEAN
  /\ event \in {"none", "Invalid", "Correct"}
  /\ waiting \subseteq Workers

Quiet == Free /\ ~changed /\ queue = {}

\* No change is lost to the reload that overlaps it: when all notifications have been
\* served and the last update did not fail, the configuration in use has the targets of
\* the file and the credentials of the secrets (UpdateConfigOnSecretEvent and
\* UpdateConfigMap, lines 107-136).
CurrentOnceQuiet ==
  Quiet /\ ~failed => conf.targets = file.targets /\ conf.stale = {}

\* isInInvalidState tells, unless the last update failed, what the verification of the
\* configuration in use said (getReplicationConfig, lines 257-276).
FlagMatchesConfig == Free /\ ~failed => (invalid <=> ~conf.ok)

\* The all-clear is true: when "Correct configuration has been applied to cluster." is the
\* last event on the pod, the configuration in use passed verification.  An update whose
\* warning cannot be published is not applied, or the earlier all-clear would stand beside
\* an invalid configuration (lines 258-274).
AllClearIsTrue == Free /\ event = "Correct" => conf.ok

\* A configuration that passed verification is not replaced by one that did not: the
\* event published for the latter says "Config update won't be applied because of invalid
\* configmap/secrets" (line 260).  The code applies it (lines 278 and 143).
InvalidNotApplied == [][conf.ok => conf'.ok]_vars

\* A reconcile that asks for a connection gets an answer, however often the configuration
\* is reloaded: every path of an update releases Config.Lock (lines 108, 131, 156).
ConnectionServed == \A w \in Workers : w \in waiting ~> w \notin waiting
=============================================================================
