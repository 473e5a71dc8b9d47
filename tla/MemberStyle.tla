---------------------------- MODULE MemberStyle ----------------------------
(***************************************************************************)
(* How the bot learns a member's way of speaking and lends it to itself    *)
(* for a while, in one group (profile/style_service.py,                    *)
(* style_repository.py, speech_style.py, adapters/imitation_commands.py):  *)
(* an administrator lets a member's messages be collected, a worker has a  *)
(* model distil them into versions of a style, and an administrator starts *)
(* an imitation of a version, which ends by time, by the member, by an     *)
(* administrator, by another imitation or with the collection.             *)
(***************************************************************************)
EXTENDS Integers, Sequences, FiniteSets, SequencesExt, FiniteSetsExt

CONSTANTS
  StyleMembers,   \* numbers, the order of enabled_members
  StyleMessages,  \* numbers, the order of occurred_at and event_id
  StyleAuthor,    \* message -> member
  StyleAt,        \* message -> occurred_at
  StyleLimit,     \* rows eligible_observations reads
  StyleNeeds,     \* messages of a mature sample (their days and scenes are left out)
  StyleGrowth,    \* messages a new version takes
  StyleRecent,    \* messages the model is shown
  StyleTraits,    \* messages a trait must cite
  StyleLongest,   \* MAX_SESSION_SECONDS
  StyleLastTime   \* bound of the clock

ASSUME StyleConstants ==
  /\ StyleMembers \subseteq Nat /\ StyleMessages \subseteq Nat
  /\ StyleAuthor \in [StyleMessages -> StyleMembers] /\ StyleAt \in [StyleMessages -> Nat]
  /\ {StyleLimit, StyleNeeds, StyleGrowth, StyleRecent, StyleTraits, StyleLongest, StyleLastTime} \subseteq Nat \ {0}

VARIABLES
  msNow,       \* clock
  msSeen,      \* profile_observations
  msEnabled,   \* member_style_settings
  msWindows,   \* by member: collection_windows_json
  msStyles,    \* by member: member_speech_style_versions
  msWork,      \* the worker: the members it has still to look at, and its call
  msSessions   \* imitation_sessions
msVars == <<msNow, msSeen, msEnabled, msWindows, msStyles, msWork, msSessions>>

StyleNever == StyleLastTime + 1   \* the end of an open window
StyleIdle == [phase |-> "idle", todo |-> {}, version |-> 0, shown |-> {}, count |-> 0]

StyleInit ==
  /\ msNow = 0 /\ msSeen = {} /\ msEnabled = {} /\ msSessions = {} /\ msWork = [StyleIdle EXCEPT !.phase = "off"]
  /\ msWindows = [a \in StyleMembers |-> {}] /\ msStyles = [a \in StyleMembers |-> <<>>]

StyleTick == msNow < StyleLastTime /\ msNow' = msNow + 1
             /\ UNCHANGED <<msSeen, msEnabled, msWindows, msStyles, msWork, msSessions>>
\* A message may be stored long after it was said.
StyleObserve(m) ==
  /\ m \notin msSeen /\ StyleAt[m] <= msNow /\ msSeen' = msSeen \cup {m}
  /\ UNCHANGED <<msNow, msEnabled, msWindows, msStyles, msWork, msSessions>>

----------------------------------------------------------------------------
(* The administrator's switch.                                             *)
StyleEnable(a) ==
  /\ a \notin msEnabled /\ msEnabled' = msEnabled \cup {a}
  /\ msWindows' = [msWindows EXCEPT ![a] = @ \cup {<<msNow, StyleNever>>}]
  /\ UNCHANGED <<msNow, msSeen, msStyles, msWork, msSessions>>
StyleCut(sel) == {IF s \in sel /\ s.open /\ s.to > msNow THEN [s EXCEPT !.open = FALSE] ELSE s : s \in msSessions}
StyleDisabledOf_none(a) == {}
StyleDisabledOf(a) == {s \in msSessions : s.of = a}
StyleDisable(a) ==
  /\ a \in msEnabled /\ msEnabled' = msEnabled \ {a}
  /\ msWindows' = [msWindows EXCEPT ![a] = {IF w[2] = StyleNever THEN <<w[1], msNow>> ELSE w : w \in @}]
  /\ msSessions' = StyleCut(StyleDisabledOf(a))
  /\ UNCHANGED <<msNow, msSeen, msStyles, msWork>>

----------------------------------------------------------------------------
(* The worker.                                                             *)
StyleOldest(k, s) == {m \in s : Cardinality({n \in s : n < m}) < k}
StyleNewest(k, s) == {m \in s : Cardinality({n \in s : n > m}) < k}
StyleInWindow_all(a, m) == TRUE
StyleInWindow(a, m) == \E w \in msWindows[a] : w[1] <= StyleAt[m] /\ StyleAt[m] < w[2]
\* eligible_observations: the oldest rows of the member, whatever the windows, then the windows.
StyleEligible(a) == {m \in StyleOldest(StyleLimit, {n \in msSeen : StyleAuthor[n] = a}) : StyleInWindow(a, m)}
StyleReady(a) == IF a \in msEnabled THEN Len(msStyles[a]) ELSE 0   \* latest_ready
StyleGrown(a) == LET n == Cardinality(StyleEligible(a)) IN
  n >= StyleNeeds /\ (StyleReady(a) > 0 => n >= Last(msStyles[a]).count + StyleGrowth)

StyleStart == msWork.phase = "off" /\ msWork' = StyleIdle
              /\ UNCHANGED <<msNow, msSeen, msEnabled, msWindows, msStyles, msSessions>>
\* process_due: the members are those enabled now, each looked at when its turn comes.
StylePass ==
  /\ msWork.phase = "idle" /\ msWork.todo = {} /\ msEnabled # {}
  /\ msWork' = [StyleIdle EXCEPT !.todo = msEnabled]
  /\ UNCHANGED <<msNow, msSeen, msEnabled, msWindows, msStyles, msSessions>>
StyleTurn == Min(msWork.todo)
StyleLook ==
  /\ msWork.phase = "idle" /\ msWork.todo # {}
  /\ LET a == StyleTurn IN
       msWork' = IF StyleGrown(a)
                 THEN [msWork EXCEPT !.phase = "asking", !.version = StyleReady(a) + 1,
                         !.shown = StyleNewest(StyleRecent, StyleEligible(a)), !.count = Cardinality(StyleEligible(a))]
                 ELSE [msWork EXCEPT !.todo = @ \ {a}]
  /\ UNCHANGED <<msNow, msSeen, msEnabled, msWindows, msStyles, msSessions>>
StyleOn == msWork' = [StyleIdle EXCEPT !.todo = msWork.todo \ {StyleTurn}]
\* An answer the checks refuse, or an error of the model.
StyleFails == msWork.phase = "asking" /\ StyleOn
              /\ UNCHANGED <<msNow, msSeen, msEnabled, msWindows, msStyles, msSessions>>
\* publish looks at the setting and the versions again.
StyleMayPublish_always(a) == TRUE
StyleMayPublish(a) == a \in msEnabled /\ msWork.version = Len(msStyles[a]) + 1
StyleAnswer(e) ==
  /\ msWork.phase = "asking" /\ e \subseteq msWork.shown /\ Cardinality(e) >= StyleTraits
  /\ LET a == StyleTurn IN
       msStyles' = IF StyleMayPublish(a) THEN [msStyles EXCEPT ![a] = Append(@, [evidence |-> e, count |-> msWork.count])]
                   ELSE msStyles
  /\ StyleOn /\ UNCHANGED <<msNow, msSeen, msEnabled, msWindows, msSessions>>
StyleStop == msWork.phase # "off" /\ msWork' = [StyleIdle EXCEPT !.phase = "off"]
             /\ UNCHANGED <<msNow, msSeen, msEnabled, msWindows, msStyles, msSessions>>

----------------------------------------------------------------------------
(* Imitations. Only the administrators the settings name start one, or     *)
(* stop another's.                                                         *)
StyleUsable(s) == s.of \in msEnabled /\ s.version <= Len(msStyles[s.of])
StyleActive(s) == s.open /\ s.to > msNow /\ StyleUsable(s)
\* active_session: the latest one.
StyleCurrent == {s \in msSessions : StyleActive(s) /\ \A z \in msSessions : StyleActive(z) => z.from <= s.from}
\* The end is said, as a length or a time: after now, three days at most.
StyleExpiries == (msNow + 1)..(msNow + StyleLongest)
\* The identifier is made of the target, the second and the administrator: the same again is refused.
StyleImitate(a, until) ==
  /\ StyleReady(a) > 0 /\ until \in StyleExpiries
  /\ \A s \in msSessions : <<s.of, s.from>> # <<a, msNow>>
  /\ msSessions' = StyleCut(msSessions)
                     \cup {[of |-> a, from |-> msNow, to |-> until, version |-> StyleReady(a), open |-> TRUE]}
  /\ UNCHANGED <<msNow, msSeen, msEnabled, msWindows, msStyles, msWork>>
\* The member imitated says so, or an administrator does.
StyleEnds(s) ==
  /\ s \in StyleCurrent /\ msSessions' = (msSessions \ {s}) \cup {[s EXCEPT !.open = FALSE]}
  /\ UNCHANGED <<msNow, msSeen, msEnabled, msWindows, msStyles, msWork>>

StyleNext ==
  \/ StyleTick \/ StyleStart \/ StylePass \/ StyleLook \/ StyleFails \/ StyleStop
  \/ \E m \in StyleMessages : StyleObserve(m)
  \/ \E e \in SUBSET msWork.shown : StyleAnswer(e)
  \/ \E a \in StyleMembers : StyleEnable(a) \/ StyleDisable(a)
  \/ \E a \in StyleMembers, u \in 1..StyleNever : StyleImitate(a, u)
  \/ \E s \in StyleCurrent : StyleEnds(s)

StyleSpec == StyleInit /\ [][StyleNext]_msVars

----------------------------------------------------------------------------
StyleSettings == [StyleMembers -> SUBSET (Nat \X Nat)]
StyleSpeechStyle == [evidence : SUBSET StyleMessages, count : Nat]
StyleVersions == [StyleMembers -> Seq(StyleSpeechStyle)]
StyleWork == [phase : {"off", "idle", "asking"}, todo : SUBSET StyleMembers, version : Nat, shown : SUBSET StyleMessages, count : Nat]
StyleSession == [of : StyleMembers, from : Nat, to : Nat, version : Nat, open : BOOLEAN]
StyleTypeOK ==
  /\ msNow \in 0..StyleLastTime /\ msSeen \subseteq StyleMessages /\ msEnabled \subseteq StyleMembers
  /\ msWindows \in StyleSettings
  /\ msStyles \in StyleVersions
  /\ msWork \in StyleWork
  /\ msSessions \subseteq StyleSession

\* What is learnt of a way of speaking comes from the member's own messages said while an administrator
\* let them be collected, however the switch moved while a model was asked, and each version from more
\* of them than the one before it (a window counts with its last second: what was said in it may have
\* been distilled before the switch was turned in that second); at most one imitation runs in the group, of a version that exists.
StyleByConsent ==
  /\ \A a \in StyleMembers : \A i \in 1..Len(msStyles[a]) :
       /\ \A m \in msStyles[a][i].evidence : StyleAuthor[m] = a /\ \E w \in msWindows[a] : StyleAt[m] \in w[1]..w[2]
       /\ i > 1 => msStyles[a][i].count >= msStyles[a][i - 1].count + StyleGrowth
  /\ Cardinality({s \in msSessions : StyleActive(s)}) <= 1

\* An imitation that ended, whichever way, never comes back: turning the collection on again does not
\* resume what turning it off ended.
StyleEndedStays ==
  \A s \in msSessions : ~StyleActive(s) =>
     \A z \in msSessions' : z.of = s.of /\ z.from = s.from => ~StyleActive(z)'

\* The model is only asked about members whose collection is on.
StyleDisabledIsUnread == [][msWork.phase # "asking" /\ msWork'.phase = "asking" => StyleTurn' \in msEnabled]_msVars
=============================================================================
