---------------------------- MODULE SurfaceModel ----------------------------
(***************************************************************************)
(* The per-display surface/role model of wandr-arbiter-core (surface.rs)   *)
(* and the role orchestration of wandr-arbiter-shell (shared.rs).          *)
(*                                                                         *)
(* The code mutates one DisplayState through a chain of calls while a      *)
(* command runs, so every helper is an operator from a display to the      *)
(* display after the call, and a command is their composition.             *)
(*                                                                         *)
(* A display is a record:                                                  *)
(*   role   - the role of each tracked surface, NoSurface when untracked   *)
(*   rank   - the position of each surface in the Vec of surfaces          *)
(*   next   - the position the next new surface takes                      *)
(*   editor - the pid holding ResourceKind::ImeEditor, or NoPid            *)
(*   ime    - the active IME's pid, or NoPid                               *)
(*   host   - what each process was last told by a role signal             *)
(*   told   - the processes last sent "editor-attached" (not "-detached")  *)
(***************************************************************************)
EXTENDS Naturals

CONSTANT MaxPid            \* bound: how many processes are ever started

ASSUME MaxPidAssumption == MaxPid \in Nat

Pid == 1 .. MaxPid
NoPid == 0                 \* Option<i32>::None
NoSurface == "none"
Role == {"Foreground", "OverlayBehind", "Overlay", "Background",
         "Chrome", "Headless", "Lockscreen"}
HostRole == {"shown", "behind", "hidden"}

Display == [role   : [Pid -> Role \cup {NoSurface}],
            rank   : [Pid -> Nat],
            next   : Nat,
            editor : Pid \cup {NoPid},
            ime    : Pid \cup {NoPid},
            host   : [Pid -> HostRole],
            told   : SUBSET Pid]

\* DisplayState::default(): nothing tracked, nothing focused.
EmptyDisplay == [role   |-> [p \in Pid |-> NoSurface],
                 rank   |-> [p \in Pid |-> 0],
                 next   |-> 0,
                 editor |-> NoPid,
                 ime    |-> NoPid,
                 host   |-> [p \in Pid |-> "shown"],
                 told   |-> {}]

-----------------------------------------------------------------------------
(* Queries *)

Surfaces(d) == {p \in Pid : d.role[p] # NoSurface}

WithRole(d, r) == {p \in Pid : d.role[p] = r}

\* The surfaces shown with the input focus.
Focused(d) == WithRole(d, "Foreground") \cup WithRole(d, "Overlay")

\* The first surface of the Vec in role r, as Iterator::find returns it.
FirstWithRole(d, r) ==
    LET S == WithRole(d, r)
    IN  IF S = {} THEN NoPid
        ELSE CHOOSE p \in S : \A q \in S : d.rank[p] <= d.rank[q]

\* "What is the user looking at": the app behind an overlay, else Foreground.
VisibleApp(d) ==
    IF WithRole(d, "OverlayBehind") # {}
    THEN FirstWithRole(d, "OverlayBehind")
    ELSE FirstWithRole(d, "Foreground")

\* The legacy slot: the overlay (the IME) during a split, else Foreground.
ForegroundSlot(d) ==
    IF WithRole(d, "Overlay") # {}
    THEN FirstWithRole(d, "Overlay")
    ELSE FirstWithRole(d, "Foreground")

OverlayEngaged(d) == WithRole(d, "Overlay") # {}

\* The IME pid when its overlay should be shown, else NoPid.
OverlayDesired(d) ==
    IF /\ d.ime # NoPid
       /\ d.editor # NoPid
       /\ VisibleApp(d) # NoPid
       /\ d.editor = VisibleApp(d)
       /\ d.ime # VisibleApp(d)
    THEN d.ime
    ELSE NoPid

\* The active IME, provided its surface is still tracked.
ActiveImeSurface(d) ==
    IF d.ime # NoPid /\ d.ime \in Surfaces(d) THEN d.ime ELSE NoPid

-----------------------------------------------------------------------------
(* Surface stack *)

\* Insert or update a surface; a new one goes to the end of the Vec.
PutSurface(d, p, r) ==
    IF p \in Surfaces(d)
    THEN [d EXCEPT !.role[p] = r]
    ELSE [d EXCEPT !.role[p] = r, !.rank[p] = d.next, !.next = @ + 1]

\* No-op when the pid is not tracked.
SetRole(d, p, r) ==
    IF p \in Surfaces(d) THEN [d EXCEPT !.role[p] = r] ELSE d

\* Mutant of RemoveSurface: the IME designation survives its process.
RemoveSurfaceKeepsIme(d, p) ==
    [d EXCEPT !.role[p] = NoSurface,
              !.rank[p] = 0,
              !.host[p] = "shown",
              !.told    = @ \ {p},
              !.editor  = IF @ = p THEN NoPid ELSE @]

\* Drop a surface with the editor focus and the IME designation it held (and
\* what the model remembers of a process that is not tracked any more).
RemoveSurface(d, p) ==
    [d EXCEPT !.role[p] = NoSurface,
              !.rank[p] = 0,
              !.host[p] = "shown",
              !.told    = @ \ {p},
              !.ime     = IF @ = p THEN NoPid ELSE @,
              !.editor  = IF @ = p THEN NoPid ELSE @]

\* apply_role: the signal the binary sends for a role.
Mechanism(r, old) ==
    CASE r \in {"Foreground", "Overlay", "Lockscreen"} -> "shown"
      [] r = "OverlayBehind"                           -> "behind"
      [] r = "Background"                              -> "hidden"
      [] OTHER                                         -> old

ApplyRole(d, p, r) == [d EXCEPT !.host[p] = Mechanism(r, @)]

\* Mutant of Apply: the model changes and no signal is sent.
ApplySilently(d, p, r) == SetRole(d, p, r)

\* Role transition of a tracked surface: the model and the signal together.
Apply(d, p, r) == SetRole(ApplyRole(d, p, r), p, r)

\* The same for a target that may not be tracked yet.
Place(d, p, r) == PutSurface(ApplyRole(d, p, r), p, r)

-----------------------------------------------------------------------------
(* Orchestration *)

\* Mutant of Tell: no test for an IME.
TellNobody(d, p) == [d EXCEPT !.told = @ \cup {p}]

\* The IME is sent "editor-attached", "editor-detached".
Tell(d, p)   == [d EXCEPT !.told = @ \cup ({p} \ {NoPid})]
Untell(d, p) == [d EXCEPT !.told = @ \ {p}]

\* Mutant of DropEditorFocusOf: the editor keeps the focus.
DropNothing(d, p) == d

\* finishInput(): p loses the editor focus and the IME is told.
DropEditorFocusOf(d, p) ==
    IF d.editor # p
    THEN d
    ELSE Untell([d EXCEPT !.editor = NoPid], ActiveImeSurface(d))

\* Put the overlay above the Foreground app, which becomes OverlayBehind. When
\* no other app is Foreground the hint becomes OverlayBehind in the model only.
PromoteToOverlay(d, p, hint) ==
    LET fg     == FirstWithRole(d, "Foreground")
        behind == IF fg # NoPid /\ fg # p
                  THEN Apply(d, fg, "OverlayBehind")
                  ELSE IF hint # NoPid THEN SetRole(d, hint, "OverlayBehind") ELSE d
    IN  Place(behind, p, "Overlay")

\* Mutant of DemoteFromOverlay: the overlay keeps its role.
DemoteBehindOnly(d) ==
    LET behind == FirstWithRole(d, "OverlayBehind")
    IN  IF behind = NoPid THEN d ELSE Apply(d, behind, "Foreground")

\* Tear the split down: overlay to Background, the app behind to Foreground.
DemoteFromOverlay(d) ==
    LET overlay == FirstWithRole(d, "Overlay")
        behind  == FirstWithRole(d, "OverlayBehind")
        hidden  == Apply(d, overlay, "Background")
    IN  IF overlay = NoPid THEN d
        ELSE IF behind = NoPid THEN hidden
        ELSE Apply(hidden, behind, "Foreground")

\* Mutant of ReconcileOverlay: an overlay nobody wants any more stays up.
ReconcileUpOnly(d) ==
    IF OverlayDesired(d) # NoPid /\ ~OverlayEngaged(d)
    THEN PromoteToOverlay(d, ActiveImeSurface(d), VisibleApp(d))
    ELSE d

\* The overlay is shown exactly when OverlayDesired says so.
ReconcileOverlay(d) ==
    IF OverlayDesired(d) # NoPid /\ ~OverlayEngaged(d)
    THEN PromoteToOverlay(d, ActiveImeSurface(d), VisibleApp(d))
    ELSE IF OverlayDesired(d) = NoPid /\ OverlayEngaged(d)
    THEN DemoteFromOverlay(d)
    ELSE d

\* The shell's reaction to Event::ForegroundChanged.
OnForegroundChanged(d) ==
    LET e == IF d.editor # NoPid /\ d.editor # VisibleApp(d)
             THEN DropEditorFocusOf(d, d.editor)
             ELSE d
    IN  ReconcileOverlay(e)

\* Bring p to the foreground, then let the event it emits cascade.
PromoteToForeground(d, p) ==
    LET split == IF OverlayEngaged(d) THEN DemoteFromOverlay(d) ELSE d
        prev  == FirstWithRole(split, "Foreground")
        alone == IF prev # NoPid /\ prev # p
                 THEN DropEditorFocusOf(Apply(split, prev, "Background"), prev)
                 ELSE split
    IN  OnForegroundChanged(ReconcileOverlay(Place(alone, p, "Foreground")))

\* Mutant of OnSurfaceRemoved: the split is not torn down first.
OnSurfaceRemovedInSplit(d, p) == RemoveSurface(d, p)

\* The shell's reaction to Event::SurfaceRemoved.
OnSurfaceRemoved(d, p) ==
    LET involved == \/ FirstWithRole(d, "Overlay") = p
                    \/ FirstWithRole(d, "OverlayBehind") = p
        e == IF OverlayEngaged(d) /\ involved THEN DemoteFromOverlay(d) ELSE d
    IN  RemoveSurface(e, p)
=============================================================================
