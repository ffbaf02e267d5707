---------------------------- MODULE ContactHistory ----------------------------
(***************************************************************************)
(* ContactEngine with a history of what the sensor showed, kept apart from *)
(* the engine's own hover record: for every finger that was a candidate in *)
(* each frame of an unbroken run of frames without contact, how long the   *)
(* run is, whether the finger was ever in front, and its last depth.       *)
(***************************************************************************)
EXTENDS ContactEngine

VARIABLE streak

historyVars == <<vars, streak>>

IsRefusedDown(c) == c.phase = "down" /\ ~c.ok

\* The runs after a frame: they start afresh with a contact and with a refused DOWN.
Extended(obs, live, session) ==
  LET seen == Candidates(obs, live)
      Of(id) == CHOOSE o \in seen : IdOf(o, live, session) = id
  IN  [id \in {IdOf(o, live, session) : o \in seen} |->
         IF id \in DOMAIN streak
           THEN [age |-> streak[id].age, z |-> Of(id).z,
                 front |-> streak[id].front \/ Of(id).z >= 16]
           ELSE [age |-> 0, z |-> Of(id).z, front |-> Of(id).z >= 16]]

NoStreak == [id \in {} |-> None]

HInit == Init /\ streak = NoStreak

HFrame(obs, live, session, ok) ==
  /\ Frame(obs, live, session, ok)
  /\ streak' = IF active # None \/ \E i \in DOMAIN calls' : IsRefusedDown(calls'[i])
                 THEN NoStreak
                 ELSE Extended(obs, live, session)

HElapse(d) ==
  /\ Elapse(d)
  /\ streak' = [id \in DOMAIN streak |->
                  [age |-> Least(streak[id].age + d, DebounceMs),
                   z |-> streak[id].z, front |-> streak[id].front]]

HNext ==
  \/ \E d \in Gaps : HElapse(d)
  \/ \E b \in BOOLEAN : SetEnabled(b) /\ UNCHANGED streak
  \/ \E ok \in BOOLEAN : (Tick(ok) \/ ReleaseCall(ok)) /\ UNCHANGED streak
  \/ \E obs \in Views, live \in LivePanels, session \in Sessions, ok \in BOOLEAN :
       HFrame(obs, live, session, ok)

HSpec == HInit /\ [][HNext]_historyVars

\* A touch begins only with one finger on one revision of one panel in one session that
\* every frame of the last 30 ms showed, that was in front of the panel in one of them,
\* and that came closer since the last (interaction.py:95-101): not from behind, not after
\* another hand, panel, revision or session took over in between, and not by resting on
\* the panel since an earlier contact or a refused DOWN.
TouchIsDeliberate ==
  [][active = None /\ active' # None =>
       LET id == active'.id
       IN  /\ id \in DOMAIN streak
           /\ streak[id].age >= DebounceMs
           /\ streak'[id].front
           /\ streak'[id].z <= 8
           /\ streak'[id].z < streak[id].z]_historyVars
=============================================================================
