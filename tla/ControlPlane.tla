----------------------------- MODULE ControlPlane -----------------------------
(***************************************************************************)
(* The commands of an operator (control/commands.py) over one persona and  *)
(* one group: versioned configuration (control/config_versions.py),        *)
(* profile facts and identities, the switch of style distillation, and     *)
(* plain governance.  A command carries the version its sender saw; its    *)
(* answer may be lost and the command sent again.  The event of a command  *)
(* is published after its transaction.                                     *)
(***************************************************************************)
EXTENDS Integers, Sequences, FiniteSets, FiniteSetsExt, SequencesExt

CONSTANTS
  CtlCommands,   \* commands composed by operators
  CtlCommand,    \* what each says; see CtlShape
  CtlMembers,    \* members there may be in the directory
  CtlPresent,    \* those in the directory at first
  CtlFactsOf,    \* fact -> member, at first
  CtlRevisions,  \* member -> revision of the stored portrait, CtlNone without one
  CtlLastTime    \* bound on the clock

CtlNone == -1
CtlNobody == "nobody"
CtlFacts == DOMAIN CtlFactsOf \cup {c \in CtlCommands : CtlCommand[c].kind = "correct"}
CtlShape ==
  [kind : {"pause"}, id : STRING, confirmed : BOOLEAN]
  \cup [kind : {"draft", "profile", "validate", "publish"}, config : STRING, id : STRING, confirmed : BOOLEAN]
  \cup [kind : {"restore"}, config : STRING, version : Nat, id : STRING, confirmed : BOOLEAN]
  \cup [kind : {"correct", "reject"}, member : CtlMembers, fact : CtlFacts, id : STRING, confirmed : BOOLEAN]
  \cup [kind : {"merge"}, source : CtlMembers, member : CtlMembers, id : STRING, confirmed : BOOLEAN]
  \cup [kind : {"split"}, member : CtlMembers, target : CtlMembers, facts : SUBSET CtlFacts, id : STRING, confirmed : BOOLEAN]
  \cup [kind : {"style"}, member : CtlMembers, enabled : BOOLEAN, id : STRING, confirmed : BOOLEAN]
CtlConfigKinds == {"draft", "profile", "validate", "publish", "restore"}
CtlPublishing == {"publish", "restore"}
CtlHighImpact == CtlPublishing \cup {"correct", "reject", "merge", "split"}

ASSUME CtlConstants ==
  /\ \A c \in CtlCommands : CtlCommand[c] \in CtlShape
  /\ CtlPresent \subseteq CtlMembers /\ CtlFactsOf \in [DOMAIN CtlFactsOf -> CtlPresent]
  /\ CtlRevisions \in [CtlMembers -> Nat \cup {CtlNone}] /\ CtlLastTime \in Nat

VARIABLES
  ctlNow,
  ctlSeen,       \* command -> version its sender saw, CtlNone while not composed
  ctlConfigs,    \* config_versions of the scope: [config, status, content]
  ctlFact,       \* profile_facts: [member, status]
  ctlDirectory,  \* participant_directory
  ctlPortrait,   \* source_revision in profile_snapshots, CtlNone without a row
  ctlStyle,      \* member_style_settings: [enabled, version, windows]
  ctlLog,        \* governance_actions: [command, version]
  ctlPublished   \* ids whose event reached the inbox
ctlVars == <<ctlNow, ctlSeen, ctlConfigs, ctlFact, ctlDirectory, ctlPortrait, ctlStyle, ctlLog, ctlPublished>>

CtlNoFact == [member |-> CtlNobody, status |-> "absent"]
CtlInit ==
  /\ ctlNow = 0 /\ ctlSeen = [c \in CtlCommands |-> CtlNone]
  /\ ctlConfigs = <<>> /\ ctlDirectory = CtlPresent /\ ctlPortrait = CtlRevisions
  /\ ctlFact = [f \in CtlFacts |-> IF f \in DOMAIN CtlFactsOf THEN [member |-> CtlFactsOf[f], status |-> "confirmed"] ELSE CtlNoFact]
  /\ ctlStyle = [m \in CtlMembers |-> [enabled |-> FALSE, version |-> 0, windows |-> <<>>]]
  /\ ctlLog = <<>> /\ ctlPublished = {}

CtlId(c) == CtlCommand[c].id
\* The version a command is checked against.
CtlPublishedAt == Max({0} \cup {v \in DOMAIN ctlConfigs : ctlConfigs[v].status = "PUBLISHED"})
\* mutant: the newest version counts, published or not
CtlCurrent_newest(c) == IF CtlCommand[c].kind \in CtlConfigKinds THEN Len(ctlConfigs) ELSE Len(ctlLog)
CtlCurrent(c) ==
  LET k == CtlCommand[c].kind IN
  CASE k \in CtlConfigKinds -> CtlPublishedAt
    [] k \in {"correct", "reject", "merge", "split"} -> Max({0, ctlPortrait[CtlCommand[c].member]})
    [] k = "style" -> ctlStyle[CtlCommand[c].member].version
    [] OTHER -> Len(ctlLog)

\* An operator reads the page and composes the command.
CtlCompose(c) ==
  /\ ctlSeen[c] = CtlNone /\ ctlSeen' = [ctlSeen EXCEPT ![c] = CtlCurrent(c)]
  /\ UNCHANGED <<ctlNow, ctlConfigs, ctlFact, ctlDirectory, ctlPortrait, ctlStyle, ctlLog, ctlPublished>>
CtlTick == ctlNow < CtlLastTime /\ ctlNow' = ctlNow + 1
           /\ UNCHANGED <<ctlSeen, ctlConfigs, ctlFact, ctlDirectory, ctlPortrait, ctlStyle, ctlLog, ctlPublished>>

----------------------------------------------------------------------------
(* Configuration.  Versions count up within the scope, over all drafts.    *)
CtlStored(config, status, content) == Append(ctlConfigs, [config |-> config, status |-> status, content |-> content])
\* A profile draft is built upon the configuration published at that moment.
CtlDraft(c) ==
  LET base == IF CtlPublishedAt = 0 THEN {} ELSE ctlConfigs[CtlPublishedAt].content
      content == IF CtlCommand[c].kind = "draft" THEN {c} ELSE {k \in base : CtlCommand[k].kind # "profile"} \cup {c} IN
  ctlConfigs' = CtlStored(CtlCommand[c].config, "DRAFT", content)
\* The latest version of this configuration in the given status.
CtlLatest(config, status) == {v \in DOMAIN ctlConfigs : ctlConfigs[v].config = config /\ ctlConfigs[v].status = status}
CtlValidate(c) ==
  LET found == CtlLatest(CtlCommand[c].config, "DRAFT") IN
  found # {} /\ ctlConfigs' = [ctlConfigs EXCEPT ![Max(found)].status = "VALIDATED"]
\* mutant: what was published before stays so
CtlSuperseded_none == ctlConfigs
CtlSuperseded == [v \in DOMAIN ctlConfigs |->
  IF ctlConfigs[v].status = "PUBLISHED" THEN [ctlConfigs[v] EXCEPT !.status = "SUPERSEDED"] ELSE ctlConfigs[v]]
CtlPublish(c) ==
  LET found == CtlLatest(CtlCommand[c].config, "VALIDATED") IN
  /\ found # {} /\ ctlConfigs' = [CtlSuperseded EXCEPT ![Max(found)].status = "PUBLISHED"]
CtlRestore(c) ==
  LET source == CtlCommand[c].version IN
  /\ source \in DOMAIN ctlConfigs /\ ctlConfigs[source].config = CtlCommand[c].config
  /\ ctlConfigs[source].status \in {"PUBLISHED", "SUPERSEDED"}
  /\ ctlConfigs' = Append(CtlSuperseded, [ctlConfigs[source] EXCEPT !.status = "PUBLISHED"])
CtlConfigure(c) ==
  /\ CASE CtlCommand[c].kind \in {"draft", "profile"} -> CtlDraft(c)
       [] CtlCommand[c].kind = "validate" -> CtlValidate(c)
       [] CtlCommand[c].kind = "publish" -> CtlPublish(c)
       [] OTHER -> CtlRestore(c)
  /\ UNCHANGED <<ctlFact, ctlDirectory, ctlPortrait, ctlStyle>>

----------------------------------------------------------------------------
(* Profiles.                                                               *)
CtlAdvanced(m, c) == IF ctlPortrait[m] = CtlNone THEN ctlPortrait ELSE [ctlPortrait EXCEPT ![m] = ctlSeen[c] + 1]
CtlCorrect(c) ==
  LET m == CtlCommand[c].member  f == CtlCommand[c].fact IN
  /\ m \in ctlDirectory /\ ctlFact[f].member = m
  /\ IF CtlCommand[c].kind = "reject" THEN ctlFact' = [ctlFact EXCEPT ![f].status = "rejected"]
     ELSE ctlFact' = [ctlFact EXCEPT ![f].status = "superseded", ![c] = [member |-> m, status |-> "confirmed"]]
  /\ ctlPortrait' = CtlAdvanced(m, c) /\ UNCHANGED ctlDirectory
\* mutant: only what is in force moves to the target
CtlMoved_confirmed(a, b, facts) ==
  [f \in CtlFacts |-> IF f \in facts /\ ctlFact[f].member = a /\ ctlFact[f].status = "confirmed"
                        THEN [ctlFact[f] EXCEPT !.member = b] ELSE ctlFact[f]]
CtlMoved(a, b, facts) ==
  [f \in CtlFacts |-> IF f \in facts /\ ctlFact[f].member = a THEN [ctlFact[f] EXCEPT !.member = b] ELSE ctlFact[f]]
CtlMerge(c) ==
  LET a == CtlCommand[c].source  b == CtlCommand[c].member IN
  /\ {a, b} \subseteq ctlDirectory /\ a # b
  /\ ctlFact' = CtlMoved(a, b, CtlFacts)
  /\ ctlDirectory' = ctlDirectory \ {a}
  /\ ctlPortrait' = [CtlAdvanced(b, c) EXCEPT ![a] = CtlNone]
CtlSplit(c) ==
  LET a == CtlCommand[c].member  b == CtlCommand[c].target  facts == CtlCommand[c].facts IN
  /\ a \in ctlDirectory /\ b \notin ctlDirectory /\ facts # {} /\ \A f \in facts : ctlFact[f].member = a
  /\ ctlFact' = CtlMoved(a, b, facts)
  /\ ctlDirectory' = ctlDirectory \cup {b} /\ ctlPortrait' = CtlAdvanced(a, c)
CtlProfile(c) ==
  /\ CASE CtlCommand[c].kind = "merge" -> CtlMerge(c)
       [] CtlCommand[c].kind = "split" -> CtlSplit(c)
       [] OTHER -> CtlCorrect(c)
  /\ UNCHANGED <<ctlConfigs, ctlStyle>>

\* Windows in which messages may be collected: opened and closed by the switch.
CtlWindows(s, enabled) ==
  IF enabled /\ ~s.enabled THEN Append(s.windows, <<ctlNow, CtlNone>>)
  ELSE IF ~enabled /\ s.enabled /\ s.windows # <<>> THEN [s.windows EXCEPT ![Len(s.windows)][2] = ctlNow]
  ELSE s.windows
CtlDistil(c) ==
  LET m == CtlCommand[c].member  on == CtlCommand[c].enabled IN
  /\ m \in ctlDirectory
  /\ ctlStyle' = [ctlStyle EXCEPT ![m] =
       [enabled |-> on, version |-> @.version + 1, windows |-> CtlWindows(@, on)]]
  /\ UNCHANGED <<ctlConfigs, ctlFact, ctlDirectory, ctlPortrait>>

----------------------------------------------------------------------------
(* execute.  A known id only repeats the recorded answer, or is refused    *)
(* for other content; a failed command leaves nothing.                     *)
CtlRecorded(id) == \E i \in DOMAIN ctlLog : CtlId(ctlLog[i].command) = id
CtlExecute(c) ==
  /\ ctlSeen[c] # CtlNone /\ ~CtlRecorded(CtlId(c))
  /\ CtlCommand[c].kind \in CtlHighImpact => CtlCommand[c].confirmed
  /\ ctlSeen[c] = CtlCurrent(c)
  /\ CASE CtlCommand[c].kind \in CtlConfigKinds -> CtlConfigure(c)
       [] CtlCommand[c].kind \in {"correct", "reject", "merge", "split"} -> CtlProfile(c)
       [] CtlCommand[c].kind = "style" -> CtlDistil(c)
       [] OTHER -> UNCHANGED <<ctlConfigs, ctlFact, ctlDirectory, ctlPortrait, ctlStyle>>
  /\ ctlLog' = Append(ctlLog, [command |-> c,
       version |-> IF CtlCommand[c].kind \in CtlPublishing THEN Max({v \in DOMAIN ctlConfigs' : ctlConfigs'[v].status = "PUBLISHED"})
                   ELSE Len(ctlLog) + 1])
  /\ UNCHANGED <<ctlNow, ctlSeen, ctlPublished>>
\* The web handler publishes the event of the answer, recorded now or before;
\* the inbox takes an event once.
CtlTell(c) ==
  /\ CtlId(c) \notin ctlPublished /\ \E i \in DOMAIN ctlLog : ctlLog[i].command = c
  /\ ctlPublished' = ctlPublished \cup {CtlId(c)}
  /\ UNCHANGED <<ctlNow, ctlSeen, ctlConfigs, ctlFact, ctlDirectory, ctlPortrait, ctlStyle, ctlLog>>

CtlNext == CtlTick \/ \E c \in CtlCommands : CtlCompose(c) \/ CtlExecute(c) \/ CtlTell(c)
CtlSpec == CtlInit /\ [][CtlNext]_ctlVars

----------------------------------------------------------------------------
CtlContexts == [CtlCommands -> Nat \cup {CtlNone}]
CtlConfigVersion == [config : STRING, status : {"DRAFT", "VALIDATED", "PUBLISHED", "SUPERSEDED"}, content : SUBSET CtlCommands]
CtlResult == [command : CtlCommands, version : Nat]
CtlTypeOK ==
  /\ ctlNow \in 0 .. CtlLastTime /\ ctlSeen \in CtlContexts
  /\ ctlConfigs \in Seq(CtlConfigVersion)
  /\ ctlFact \in [CtlFacts -> [member : CtlMembers \cup {CtlNobody}, status : {"absent", "confirmed", "superseded", "rejected"}]]
  /\ ctlDirectory \subseteq CtlMembers /\ ctlPortrait \in [CtlMembers -> Nat \cup {CtlNone}]
  /\ ctlStyle \in [CtlMembers -> [enabled : BOOLEAN, version : Nat, windows : Seq(Nat \X (Nat \cup {CtlNone}))]]
  /\ ctlLog \in Seq(CtlResult) /\ ctlPublished \subseteq {CtlId(c) : c \in CtlCommands}

\* The publications in the log, and the version the last of some of them produced.
CtlMade == {i \in DOMAIN ctlLog : CtlCommand[ctlLog[i].command].kind \in CtlPublishing}
CtlProduced(made) == IF made = {} THEN 0 ELSE ctlLog[Max(made)].version
\* No publication is lost: however commands of several operators interleave
\* and are repeated, one version at most is in force, and each publication was
\* made by someone who saw the version that the one before it produced.
CtlPublicationChain ==
  /\ Cardinality({v \in DOMAIN ctlConfigs : ctlConfigs[v].status = "PUBLISHED"}) <= 1
  /\ \A i \in CtlMade : ctlSeen[ctlLog[i].command] = CtlProduced({j \in CtlMade : j < i})
  /\ CtlProduced(CtlMade) = CtlPublishedAt

\* Corrections, merges and splits that cross each other leave every stored fact
\* with a member of the directory, and collection is open only while enabled.
CtlFactsOwned ==
  /\ \A f \in CtlFacts : ctlFact[f].status # "absent" => ctlFact[f].member \in ctlDirectory
  /\ \A m \in CtlMembers : \A i \in DOMAIN ctlStyle[m].windows :
       ctlStyle[m].windows[i][2] = CtlNone <=> i = Len(ctlStyle[m].windows) /\ ctlStyle[m].enabled

\* Commands that interleave and repeat lose no publication and leave no stored fact without its member.
CtlSound == CtlPublicationChain /\ CtlFactsOwned
=============================================================================
