--------------------------- MODULE SurfaceProofs ---------------------------
(***************************************************************************)
(* What the operators of SurfaceModel do to a display: each one yields a   *)
(* display, keeps the tracked surfaces, leaves the IME alone and keeps or  *)
(* clears the editor; and each composite keeps the focus slot unique.      *)
(***************************************************************************)
EXTENDS SurfaceModel, TLAPS, WellFoundedInduction

-----------------------------------------------------------------------------
(* Queries *)

\* A non-empty set of numbers has a least member.
LEMMA LeastNat ==
    ASSUME NEW T \in SUBSET Nat, T # {}
    PROVE  \E m \in T : \A n \in T : m <= n
<1>1. PICK m \in T : \A n \in T : ~(<<n, m>> \in OpToRel(<, Nat))
  BY NatLessThanWellFounded, WFMin
<1>2. \A n \in T : ~(n < m)
  BY <1>1 DEF OpToRel
<1>. QED
  BY <1>2

\* A non-empty set of pids has a member of least rank.
LEMMA LeastRank ==
    ASSUME NEW f \in [Pid -> Nat], NEW S \in SUBSET Pid, S # {}
    PROVE  \E p \in S : \A q \in S : f[p] <= f[q]
<1> DEFINE T == {f[p] : p \in S}
<1>1. T \in SUBSET Nat /\ T # {}
  OBVIOUS
<1>2. PICK m \in T : \A n \in T : m <= n
  BY <1>1, LeastNat
<1>. QED
  BY <1>2

\* Iterator::find returns a surface in the role exactly when there is one.
LEMMA FirstFound ==
    ASSUME NEW d \in Display, NEW r
    PROVE  /\ FirstWithRole(d, r) \in WithRole(d, r) \cup {NoPid}
           /\ FirstWithRole(d, r) = NoPid <=> WithRole(d, r) = {}
<1> DEFINE S == WithRole(d, r)
<1>1. S \in SUBSET Pid /\ NoPid \notin S
  BY DEF WithRole, Pid, NoPid
<1>2. CASE S = {}
  BY <1>2 DEF FirstWithRole
<1>3. CASE S # {}
  <2>1. d.rank \in [Pid -> Nat]
    BY DEF Display
  <2>2. \E p \in S : \A q \in S : d.rank[p] <= d.rank[q]
    BY <1>1, <1>3, <2>1, LeastRank
  <2>3. FirstWithRole(d, r) = CHOOSE p \in S : \A q \in S : d.rank[p] <= d.rank[q]
    BY <1>3 DEF FirstWithRole
  <2>4. FirstWithRole(d, r) \in S
    BY <2>2, <2>3
  <2>. QED
    BY <1>1, <1>3, <2>4
<1>. QED
  BY <1>2, <1>3

-----------------------------------------------------------------------------
(* Single calls *)

\* What every operation on tracked surfaces keeps.
Keeps(d, e) ==
    /\ e \in Display
    /\ Surfaces(e) = Surfaces(d)
    /\ e.ime = d.ime
    /\ e.editor \in {d.editor, NoPid}

\* set_role changes one role, of a tracked surface only.
LEMMA SetRoleFacts ==
    ASSUME NEW d \in Display, NEW p \in Pid, NEW r \in Role
    PROVE  /\ Keeps(d, SetRole(d, p, r))
           /\ SetRole(d, p, r).editor = d.editor
           /\ \A q \in Pid : SetRole(d, p, r).role[q] =
                  IF q = p /\ p \in Surfaces(d) THEN r ELSE d.role[q]
<1>1. NoSurface \notin Role
  BY DEF NoSurface, Role
<1>2. CASE p \in Surfaces(d)
  <2>1. SetRole(d, p, r) = [d EXCEPT !.role[p] = r]
    BY <1>2 DEF SetRole
  <2>2. SetRole(d, p, r) \in Display
    BY <2>1 DEF Display
  <2>. QED
    BY <1>1, <1>2, <2>1, <2>2 DEF Keeps, Display, Surfaces
<1>3. CASE p \notin Surfaces(d)
  BY <1>3 DEF SetRole, Keeps
<1>. QED
  BY <1>2, <1>3

\* A role signal changes what the process was told and nothing else.
LEMMA ApplyRoleFacts ==
    ASSUME NEW d \in Display, NEW p \in Pid, NEW r \in Role
    PROVE  /\ Keeps(d, ApplyRole(d, p, r))
           /\ ApplyRole(d, p, r).editor = d.editor
           /\ ApplyRole(d, p, r).role = d.role
<1>1. Mechanism(r, d.host[p]) \in HostRole
  BY DEF Mechanism, HostRole, Display, Role
<1>2. ApplyRole(d, p, r) = [d EXCEPT !.host[p] = Mechanism(r, d.host[p])]
  BY DEF ApplyRole, Display
<1>3. ApplyRole(d, p, r) \in Display
  BY <1>1, <1>2 DEF Display
<1>. QED
  BY <1>2, <1>3 DEF Keeps, Display, Surfaces

\* put_surface tracks the pid in the role and touches no other surface.
LEMMA PutFacts ==
    ASSUME NEW d \in Display, NEW p \in Pid, NEW r \in Role
    PROVE  /\ PutSurface(d, p, r) \in Display
           /\ PutSurface(d, p, r).ime = d.ime
           /\ PutSurface(d, p, r).editor = d.editor
           /\ Surfaces(PutSurface(d, p, r)) = Surfaces(d) \cup {p}
           /\ \A q \in Pid : PutSurface(d, p, r).role[q] =
                  IF q = p THEN r ELSE d.role[q]
<1>1. NoSurface \notin Role
  BY DEF NoSurface, Role
<1>2. CASE p \in Surfaces(d)
  <2>1. PutSurface(d, p, r) = [d EXCEPT !.role[p] = r]
    BY <1>2 DEF PutSurface
  <2>2. PutSurface(d, p, r) \in Display
    BY <2>1 DEF Display
  <2>. QED
    BY <1>1, <1>2, <2>1, <2>2 DEF Display, Surfaces
<1>3. CASE p \notin Surfaces(d)
  <2> DEFINE e == [d EXCEPT !.role[p] = r]
             f == [e EXCEPT !.rank[p] = d.next]
             g == [f EXCEPT !.next = d.next + 1]
  <2>1. e \in Display /\ e.next = d.next /\ d.next \in Nat
    BY DEF Display
  <2>2. f \in Display /\ f.next = d.next
    <3> HIDE DEF e
    <3>. QED
      BY <2>1 DEF Display
  <2>3. g \in Display
    <3> HIDE DEF e, f
    <3>. QED
      BY <2>1, <2>2 DEF Display
  <2>4. PutSurface(d, p, r) = g
    BY <1>3, <2>1, <2>2 DEF PutSurface
  <2>5. g.role = [d.role EXCEPT ![p] = r] /\ g.ime = d.ime /\ g.editor = d.editor
    BY DEF Display
  <2>. QED
    BY <1>1, <2>3, <2>4, <2>5 DEF Display, Surfaces
<1>. QED
  BY <1>2, <1>3

\* apply() changes one role, and only of a tracked surface.
LEMMA ApplyFacts ==
    ASSUME NEW d \in Display, NEW p \in Pid, NEW r \in Role
    PROVE  /\ Keeps(d, Apply(d, p, r))
           /\ Apply(d, p, r).editor = d.editor
           /\ \A q \in Pid : Apply(d, p, r).role[q] =
                  IF q = p /\ p \in Surfaces(d) THEN r ELSE d.role[q]
<1> DEFINE e == ApplyRole(d, p, r)
<1>1. Keeps(d, e) /\ e.editor = d.editor /\ e.role = d.role
  BY ApplyRoleFacts
<1>2. e \in Display /\ Surfaces(e) = Surfaces(d) /\ e.ime = d.ime
  BY <1>1 DEF Keeps
<1>3. /\ Keeps(e, SetRole(e, p, r))
      /\ SetRole(e, p, r).editor = e.editor
      /\ \A q \in Pid : SetRole(e, p, r).role[q] =
             IF q = p /\ p \in Surfaces(e) THEN r ELSE e.role[q]
  BY <1>2, SetRoleFacts
<1>4. Apply(d, p, r) = SetRole(e, p, r)
  BY DEF Apply
<1>. QED
  BY <1>1, <1>2, <1>3, <1>4 DEF Keeps

\* Placing a surface gives it the role and leaves the others alone.
LEMMA PlaceFacts ==
    ASSUME NEW d \in Display, NEW p \in Pid, NEW r \in Role
    PROVE  /\ Place(d, p, r) \in Display
           /\ Place(d, p, r).ime = d.ime
           /\ Place(d, p, r).editor = d.editor
           /\ Surfaces(Place(d, p, r)) = Surfaces(d) \cup {p}
           /\ \A q \in Pid : Place(d, p, r).role[q] =
                  IF q = p THEN r ELSE d.role[q]
<1> DEFINE e == ApplyRole(d, p, r)
<1>1. /\ e \in Display /\ Surfaces(e) = Surfaces(d) /\ e.ime = d.ime
      /\ e.editor = d.editor /\ e.role = d.role
  BY ApplyRoleFacts DEF Keeps
<1>2. Place(d, p, r) = PutSurface(e, p, r)
  BY DEF Place
<1>. QED
  BY <1>1, <1>2, PutFacts

\* A message to the IME changes what it was told and nothing else.
LEMMA TellFacts ==
    ASSUME NEW d \in Display, NEW p \in Pid \cup {NoPid}
    PROVE  /\ Keeps(d, Tell(d, p)) /\ Tell(d, p).role = d.role
           /\ Tell(d, p).editor = d.editor
           /\ Keeps(d, Untell(d, p)) /\ Untell(d, p).role = d.role
           /\ Untell(d, p).editor = d.editor
<1>1. /\ Tell(d, p) = [d EXCEPT !.told = d.told \cup ({p} \ {NoPid})]
      /\ Untell(d, p) = [d EXCEPT !.told = d.told \ {p}]
  BY DEF Tell, Untell, Display
<1>2. d.told \cup ({p} \ {NoPid}) \in SUBSET Pid /\ d.told \ {p} \in SUBSET Pid
  BY DEF Display
<1>3. Tell(d, p) \in Display
  BY <1>1, <1>2 DEF Display
<1>4. Untell(d, p) \in Display
  BY <1>1, <1>2 DEF Display
<1>. QED
  BY <1>1, <1>3, <1>4 DEF Keeps, Display, Surfaces

\* active_ime() is NoPid or a tracked pid.
LEMMA ActiveImeType ==
    ASSUME NEW d \in Display
    PROVE  ActiveImeSurface(d) \in Pid \cup {NoPid}
BY DEF ActiveImeSurface, Display

\* Moving the editor focus changes no role.
LEMMA EditorFacts ==
    ASSUME NEW d \in Display, NEW p \in Pid \cup {NoPid}
    PROVE  /\ [d EXCEPT !.editor = p] \in Display
           /\ [d EXCEPT !.editor = p].role = d.role
           /\ [d EXCEPT !.editor = p].ime = d.ime
           /\ [d EXCEPT !.editor = p].editor = p
           /\ Surfaces([d EXCEPT !.editor = p]) = Surfaces(d)
BY DEF Display, Surfaces

\* finishInput() at most clears the editor.
LEMMA DropFacts ==
    ASSUME NEW d \in Display, NEW p
    PROVE  /\ Keeps(d, DropEditorFocusOf(d, p))
           /\ DropEditorFocusOf(d, p).role = d.role
<1>1. CASE d.editor # p
  BY <1>1 DEF DropEditorFocusOf, Keeps
<1>2. CASE d.editor = p
  <2> DEFINE e == [d EXCEPT !.editor = NoPid]
  <2>1. /\ e \in Display /\ e.role = d.role /\ e.ime = d.ime /\ e.editor = NoPid
        /\ Surfaces(e) = Surfaces(d)
    BY EditorFacts
  <2>2. DropEditorFocusOf(d, p) = Untell(e, ActiveImeSurface(d))
    BY <1>2 DEF DropEditorFocusOf
  <2>3. /\ Keeps(e, Untell(e, ActiveImeSurface(d)))
        /\ Untell(e, ActiveImeSurface(d)).role = e.role
    <3> HIDE DEF e
    <3>. QED
      BY <2>1, ActiveImeType, TellFacts
  <2>. QED
    <3> HIDE DEF e
    <3>. QED
      BY <2>1, <2>2, <2>3 DEF Keeps
<1>. QED
  BY <1>1, <1>2

-----------------------------------------------------------------------------
(* Composites *)

\* The focus slot is unambiguous.
Unique(d) == \A p, q \in Focused(d) : p = q

\* The pids the display points at own a surface.
Tracked(d) ==
    /\ d.ime # NoPid => d.ime \in Surfaces(d)
    /\ d.editor # NoPid => d.editor \in Surfaces(d)

\* Tearing the split down leaves no overlay and one focused app at most.
LEMMA DemoteFacts ==
    ASSUME NEW d \in Display, Unique(d)
    PROVE  /\ Keeps(d, DemoteFromOverlay(d))
           /\ Unique(DemoteFromOverlay(d))
           /\ WithRole(DemoteFromOverlay(d), "Overlay") = {}
<1> DEFINE o == FirstWithRole(d, "Overlay")
           b == FirstWithRole(d, "OverlayBehind")
           h == Apply(d, o, "Background")
           e == Apply(h, b, "Foreground")
<1>1. /\ o \in WithRole(d, "Overlay") \cup {NoPid}
      /\ o = NoPid <=> WithRole(d, "Overlay") = {}
      /\ b \in WithRole(d, "OverlayBehind") \cup {NoPid}
  BY FirstFound
<1>2. CASE o = NoPid
  BY <1>1, <1>2 DEF DemoteFromOverlay, Keeps
<1>3. CASE o # NoPid
  <2>1. o \in Pid /\ o \in Surfaces(d) /\ o \in Focused(d)
    BY <1>1, <1>3 DEF WithRole, Surfaces, Focused, NoSurface
  <2>2. Focused(d) = {o}
    BY <2>1 DEF Unique
  <2>3. /\ Keeps(d, h) /\ h.editor = d.editor
        /\ \A q \in Pid : h.role[q] = IF q = o THEN "Background" ELSE d.role[q]
    BY <2>1, ApplyFacts DEF Role
  <2>4. h \in Display /\ Surfaces(h) = Surfaces(d)
    BY <2>3 DEF Keeps
  <2>5. Focused(h) = {}
    BY <2>2, <2>3 DEF Focused, WithRole
  <2>6. CASE b = NoPid
    <3>1. DemoteFromOverlay(d) = h
      BY <1>3, <2>6 DEF DemoteFromOverlay
    <3>. QED
      BY <2>3, <2>5, <3>1 DEF Unique, Focused
  <2>7. CASE b # NoPid
    <3>1. b \in Pid /\ b \in Surfaces(h)
      BY <1>1, <2>4, <2>7 DEF WithRole, Surfaces, NoSurface
    <3>2. DemoteFromOverlay(d) = e
      BY <1>3, <2>7 DEF DemoteFromOverlay
    <3>3. /\ Keeps(h, e) /\ e.editor = h.editor
          /\ \A q \in Pid : e.role[q] = IF q = b THEN "Foreground" ELSE h.role[q]
      BY <2>4, <3>1, ApplyFacts DEF Role
    <3>4. Focused(e) \subseteq {b} /\ WithRole(e, "Overlay") = {}
      BY <2>5, <3>3 DEF Focused, WithRole
    <3>5. Keeps(d, e)
      BY <2>3, <3>3 DEF Keeps
    <3>. QED
      BY <3>2, <3>4, <3>5 DEF Unique
  <2>. QED
    BY <2>6, <2>7
<1>. QED
  BY <1>2, <1>3

\* The overlay takes the focus over: the app it covers stops being focused. The
\* premise is that an overlay already there is the hint or the new one.
LEMMA PromoteToOverlayFacts ==
    ASSUME NEW d \in Display, NEW p \in Pid, NEW hint \in Pid \cup {NoPid},
           Unique(d), WithRole(d, "Overlay") \subseteq {hint, p}
    PROVE  /\ PromoteToOverlay(d, p, hint) \in Display
           /\ PromoteToOverlay(d, p, hint).ime = d.ime
           /\ PromoteToOverlay(d, p, hint).editor = d.editor
           /\ Surfaces(PromoteToOverlay(d, p, hint)) = Surfaces(d) \cup {p}
           /\ Unique(PromoteToOverlay(d, p, hint))
<1> DEFINE fg == FirstWithRole(d, "Foreground")
           a  == Apply(d, fg, "OverlayBehind")
           s  == SetRole(d, hint, "OverlayBehind")
           b  == IF fg # NoPid /\ fg # p THEN a ELSE IF hint # NoPid THEN s ELSE d
           e  == Place(b, p, "Overlay")
<1>1. /\ fg \in WithRole(d, "Foreground") \cup {NoPid}
      /\ fg = NoPid <=> WithRole(d, "Foreground") = {}
  BY FirstFound
<1>2. /\ b \in Display /\ b.ime = d.ime /\ b.editor = d.editor
      /\ Surfaces(b) = Surfaces(d) /\ Focused(b) \subseteq {p}
  <2>1. CASE fg # NoPid /\ fg # p
    <3>1. fg \in Pid /\ fg \in Surfaces(d) /\ Focused(d) = {fg}
      BY <1>1, <2>1 DEF WithRole, Surfaces, Focused, NoSurface, Unique
    <3>2. /\ Keeps(d, a) /\ a.editor = d.editor
          /\ \A q \in Pid : a.role[q] = IF q = fg THEN "OverlayBehind" ELSE d.role[q]
      BY <3>1, ApplyFacts DEF Role
    <3>3. Focused(a) = {}
      BY <3>1, <3>2 DEF Focused, WithRole
    <3>4. b = a
      BY <2>1
    <3>. QED
      BY <3>2, <3>3, <3>4 DEF Keeps
  <2>2. CASE ~(fg # NoPid /\ fg # p)
    <3>1. Focused(d) \subseteq {hint, p}
      BY <1>1, <2>2 DEF Focused, Unique
    <3>2. fg = p => Focused(d) = {p}
      BY <1>1 DEF Focused, Unique, WithRole, NoPid, Pid
    <3>3. CASE hint = NoPid
      <4>1. b = d
        BY <2>2, <3>3
      <4>2. NoPid \notin Focused(d)
        BY DEF Focused, WithRole, NoPid, Pid
      <4>. QED
        BY <3>1, <3>3, <4>1, <4>2
    <3>4. CASE hint # NoPid
      <4>1. b = s
        BY <2>2, <3>4
      <4>2. /\ Keeps(d, s) /\ s.editor = d.editor
            /\ \A q \in Pid : s.role[q] =
                 IF q = hint /\ hint \in Surfaces(d) THEN "OverlayBehind" ELSE d.role[q]
        BY <3>4, SetRoleFacts DEF Role
      <4>3. Focused(d) \subseteq Surfaces(d)
        BY DEF Focused, WithRole, Surfaces, NoSurface
      <4>4. Focused(s) \subseteq Focused(d) \ {hint}
        BY <4>2, <4>3 DEF Focused, WithRole
      <4>. QED
        BY <3>1, <4>1, <4>2, <4>4 DEF Keeps
    <3>. QED
      BY <3>3, <3>4
  <2>. QED
    BY <2>1, <2>2
<1>3. PromoteToOverlay(d, p, hint) = e
  BY DEF PromoteToOverlay
<1> HIDE DEF b
<1>4. /\ e \in Display /\ e.ime = b.ime /\ e.editor = b.editor
      /\ Surfaces(e) = Surfaces(b) \cup {p}
      /\ \A q \in Pid : e.role[q] = IF q = p THEN "Overlay" ELSE b.role[q]
  <2>1. b \in Display /\ "Overlay" \in Role
    BY <1>2 DEF Role
  <2>. QED
    BY <2>1, PlaceFacts
<1>5. Focused(e) \subseteq {p}
  BY <1>2, <1>4 DEF Focused, WithRole
<1>. QED
  BY <1>2, <1>3, <1>4, <1>5 DEF Unique

\* visible_app() and foreground_slot() return NoPid or a pid.
LEMMA VisibleType ==
    ASSUME NEW d \in Display
    PROVE  VisibleApp(d) \in Pid \cup {NoPid} /\ ForegroundSlot(d) \in Pid \cup {NoPid}
BY FirstFound DEF VisibleApp, ForegroundSlot, WithRole

\* reconcile_overlay: its expect("desired implies ime") cannot fail, because the
\* IME of a display is tracked.
LEMMA ReconcileFacts ==
    ASSUME NEW d \in Display, Unique(d), Tracked(d)
    PROVE  /\ Keeps(d, ReconcileOverlay(d))
           /\ Unique(ReconcileOverlay(d))
<1> DEFINE e == PromoteToOverlay(d, ActiveImeSurface(d), VisibleApp(d))
<1>1. CASE OverlayDesired(d) # NoPid /\ ~OverlayEngaged(d)
  <2>1. d.ime # NoPid
    BY <1>1 DEF OverlayDesired
  <2>2. ActiveImeSurface(d) \in Pid /\ ActiveImeSurface(d) \in Surfaces(d)
    BY <2>1 DEF Tracked, ActiveImeSurface, Surfaces
  <2>3. WithRole(d, "Overlay") = {}
    BY <1>1 DEF OverlayEngaged
  <2>4. /\ e \in Display /\ e.ime = d.ime /\ e.editor = d.editor
        /\ Surfaces(e) = Surfaces(d) \cup {ActiveImeSurface(d)} /\ Unique(e)
    BY <2>2, <2>3, VisibleType, PromoteToOverlayFacts
  <2>5. ReconcileOverlay(d) = e
    BY <1>1 DEF ReconcileOverlay
  <2>. QED
    BY <2>2, <2>4, <2>5 DEF Keeps
<1>2. CASE OverlayDesired(d) = NoPid /\ OverlayEngaged(d)
  <2>1. ReconcileOverlay(d) = DemoteFromOverlay(d)
    BY <1>2 DEF ReconcileOverlay
  <2>. QED
    BY <2>1, DemoteFacts
<1>3. CASE /\ ~(OverlayDesired(d) # NoPid /\ ~OverlayEngaged(d))
           /\ ~(OverlayDesired(d) = NoPid /\ OverlayEngaged(d))
  <2>1. ReconcileOverlay(d) = d
    BY <1>3 DEF ReconcileOverlay
  <2>. QED
    BY <2>1 DEF Keeps
<1>. QED
  BY <1>1, <1>2, <1>3

\* What keeps the surfaces and moves no pointer keeps them tracked.
LEMMA KeepsTracked ==
    ASSUME NEW d, NEW e, Keeps(d, e), Tracked(d)
    PROVE  e \in Display /\ Tracked(e)
BY DEF Keeps, Tracked

\* Displays with the same roles have the same focused surfaces.
LEMMA SameRoles ==
    ASSUME NEW d, NEW e, e.role = d.role, Unique(d)
    PROVE  Unique(e)
BY DEF Unique, Focused, WithRole

\* The reaction to ForegroundChanged keeps the slot unambiguous.
LEMMA OnForegroundChangedFacts ==
    ASSUME NEW d \in Display, Unique(d), Tracked(d)
    PROVE  /\ Keeps(d, OnForegroundChanged(d))
           /\ Unique(OnForegroundChanged(d))
<1> DEFINE e == IF d.editor # NoPid /\ d.editor # VisibleApp(d)
                THEN DropEditorFocusOf(d, d.editor) ELSE d
<1>1. Keeps(d, e) /\ e.role = d.role
  BY DropFacts DEF Keeps
<1>2. OnForegroundChanged(d) = ReconcileOverlay(e)
  BY DEF OnForegroundChanged
<1> HIDE DEF e
<1>3. e \in Display /\ Tracked(e) /\ Unique(e)
  BY <1>1, KeepsTracked, SameRoles
<1>4. Keeps(e, ReconcileOverlay(e)) /\ Unique(ReconcileOverlay(e))
  BY <1>3, ReconcileFacts
<1>. QED
  BY <1>1, <1>2, <1>4 DEF Keeps

\* What bringing a process up may do: it tracks the process, and no more.
Grows(d, e, p) ==
    /\ e \in Display
    /\ Surfaces(e) = Surfaces(d) \cup {p}
    /\ e.ime = d.ime
    /\ e.editor \in {d.editor, NoPid}

\* promote_to_foreground tracks its target and leaves at most one surface focused.
LEMMA PromoteToForegroundFacts ==
    ASSUME NEW d \in Display, NEW p \in Pid, Unique(d), Tracked(d)
    PROVE  /\ Grows(d, PromoteToForeground(d, p), p)
           /\ Unique(PromoteToForeground(d, p))
<1> DEFINE split == IF OverlayEngaged(d) THEN DemoteFromOverlay(d) ELSE d
           prev  == FirstWithRole(split, "Foreground")
           back  == Apply(split, prev, "Background")
           alone == IF prev # NoPid /\ prev # p
                    THEN DropEditorFocusOf(back, prev) ELSE split
           e == Place(alone, p, "Foreground")
           f == ReconcileOverlay(e)
<1>1. /\ Keeps(d, split) /\ Unique(split) /\ WithRole(split, "Overlay") = {}
  BY DemoteFacts DEF Keeps, OverlayEngaged
<1>2. PromoteToForeground(d, p) = OnForegroundChanged(f)
  BY DEF PromoteToForeground
<1> HIDE DEF split
<1>3. split \in Display
  BY <1>1 DEF Keeps
<1>4. /\ prev \in WithRole(split, "Foreground") \cup {NoPid}
      /\ prev = NoPid <=> WithRole(split, "Foreground") = {}
  BY <1>3, FirstFound
<1>5. Keeps(split, alone) /\ Focused(alone) \subseteq {p}
  <2>1. CASE prev # NoPid /\ prev # p
    <3>1. prev \in Pid /\ prev \in Surfaces(split) /\ Focused(split) = {prev}
      BY <1>1, <1>4, <2>1 DEF WithRole, Surfaces, Focused, NoSurface, Unique
    <3>2. /\ Keeps(split, back) /\ back.editor = split.editor
          /\ \A q \in Pid : back.role[q] = IF q = prev THEN "Background" ELSE split.role[q]
      BY <1>3, <3>1, ApplyFacts DEF Role
    <3>3. Focused(back) = {}
      BY <3>1, <3>2 DEF Focused, WithRole
    <3>4. Keeps(back, DropEditorFocusOf(back, prev)) /\ DropEditorFocusOf(back, prev).role = back.role
      BY <3>2, DropFacts DEF Keeps
    <3>5. alone = DropEditorFocusOf(back, prev)
      BY <2>1
    <3>. QED
      BY <3>2, <3>3, <3>4, <3>5 DEF Keeps, Focused, WithRole
  <2>2. CASE ~(prev # NoPid /\ prev # p)
    <3>1. alone = split
      BY <2>2
    <3>2. Focused(split) \subseteq {p}
      BY <1>1, <1>4, <2>2 DEF Focused, Unique
    <3>. QED
      BY <1>3, <3>1, <3>2 DEF Keeps
  <2>. QED
    BY <2>1, <2>2
<1> HIDE DEF alone
<1>6. alone \in Display
  BY <1>5 DEF Keeps
<1>7. /\ e \in Display /\ e.ime = alone.ime /\ e.editor = alone.editor
      /\ Surfaces(e) = Surfaces(alone) \cup {p}
      /\ \A q \in Pid : e.role[q] = IF q = p THEN "Foreground" ELSE alone.role[q]
  <2>1. "Foreground" \in Role
    BY DEF Role
  <2>. QED
    BY <1>6, <2>1, PlaceFacts
<1>8. Unique(e)
  BY <1>5, <1>7 DEF Unique, Focused, WithRole
<1>9. Grows(d, e, p) /\ Tracked(e)
  BY <1>1, <1>5, <1>7 DEF Keeps, Grows, Tracked
<1> HIDE DEF e
<1>10. Keeps(e, f) /\ Unique(f)
  BY <1>7, <1>8, <1>9, ReconcileFacts
<1>11. f \in Display /\ Tracked(f)
  BY <1>9, <1>10, KeepsTracked
<1> HIDE DEF f
<1>12. Keeps(f, OnForegroundChanged(f)) /\ Unique(OnForegroundChanged(f))
  BY <1>10, <1>11, OnForegroundChangedFacts
<1>. QED
  BY <1>2, <1>9, <1>10, <1>12 DEF Keeps, Grows

\* Removing a surface removes every pointer to it.
LEMMA RemoveSurfaceFacts ==
    ASSUME NEW d \in Display, NEW p \in Pid, Unique(d), Tracked(d)
    PROVE  /\ RemoveSurface(d, p) \in Display
           /\ Surfaces(RemoveSurface(d, p)) = Surfaces(d) \ {p}
           /\ Unique(RemoveSurface(d, p))
           /\ Tracked(RemoveSurface(d, p))
<1> DEFINE a == [d EXCEPT !.role[p] = NoSurface]
           b == [a EXCEPT !.rank[p] = 0]
           c == [b EXCEPT !.host[p] = "shown"]
           t == [c EXCEPT !.told = d.told \ {p}]
           i == [t EXCEPT !.ime = IF d.ime = p THEN NoPid ELSE d.ime]
           e == [i EXCEPT !.editor = IF d.editor = p THEN NoPid ELSE d.editor]
<1>1. /\ a \in Display /\ a.role = [d.role EXCEPT ![p] = NoSurface]
      /\ a.told = d.told /\ a.ime = d.ime /\ a.editor = d.editor
  BY DEF Display
<1>2. /\ b \in Display /\ b.role = a.role
      /\ b.told = d.told /\ b.ime = d.ime /\ b.editor = d.editor
  <2> HIDE DEF a
  <2>. QED
    BY <1>1 DEF Display
<1>3. /\ c \in Display /\ c.role = a.role
      /\ c.told = d.told /\ c.ime = d.ime /\ c.editor = d.editor
  <2> HIDE DEF b, a
  <2>. QED
    BY <1>2 DEF Display, HostRole
<1>4. /\ t \in Display /\ t.role = a.role /\ t.ime = d.ime /\ t.editor = d.editor
  <2> HIDE DEF c, a
  <2>1. d.told \ {p} \in SUBSET Pid
    BY DEF Display
  <2>. QED
    BY <1>3, <2>1 DEF Display
<1>5. /\ i \in Display /\ i.role = a.role /\ i.editor = d.editor
      /\ i.ime = IF d.ime = p THEN NoPid ELSE d.ime
  <2> HIDE DEF t, a
  <2>1. (IF d.ime = p THEN NoPid ELSE d.ime) \in Pid \cup {NoPid}
    BY DEF Display
  <2>. QED
    BY <1>4, <2>1 DEF Display
<1>6. /\ e \in Display /\ e.role = a.role /\ e.ime = i.ime
      /\ e.editor = IF d.editor = p THEN NoPid ELSE d.editor
  <2> HIDE DEF i, a
  <2>1. (IF d.editor = p THEN NoPid ELSE d.editor) \in Pid \cup {NoPid}
    BY DEF Display
  <2>. QED
    BY <1>5, <2>1 DEF Display
<1>7. RemoveSurface(d, p) = e
  BY DEF RemoveSurface, Display
<1> HIDE DEF a, i, e
<1>8. \A q \in Pid : e.role[q] = IF q = p THEN NoSurface ELSE d.role[q]
  BY <1>1, <1>6 DEF Display
<1>9. Surfaces(e) = Surfaces(d) \ {p}
  BY <1>8 DEF Surfaces
<1>10. Focused(e) \subseteq Focused(d)
  BY <1>8 DEF Focused, WithRole, NoSurface
<1>. QED
  BY <1>5, <1>6, <1>7, <1>9, <1>10 DEF Unique, Tracked

\* The reaction to SurfaceRemoved drops the surface and every pointer to it.
LEMMA OnSurfaceRemovedFacts ==
    ASSUME NEW d \in Display, NEW p \in Pid, Unique(d), Tracked(d)
    PROVE  /\ OnSurfaceRemoved(d, p) \in Display
           /\ Surfaces(OnSurfaceRemoved(d, p)) = Surfaces(d) \ {p}
           /\ Unique(OnSurfaceRemoved(d, p))
           /\ Tracked(OnSurfaceRemoved(d, p))
<1> DEFINE involved == \/ FirstWithRole(d, "Overlay") = p
                       \/ FirstWithRole(d, "OverlayBehind") = p
           e == IF OverlayEngaged(d) /\ involved THEN DemoteFromOverlay(d) ELSE d
<1>1. Keeps(d, e) /\ Unique(e)
  BY DemoteFacts DEF Keeps
<1>2. OnSurfaceRemoved(d, p) = RemoveSurface(e, p)
  BY DEF OnSurfaceRemoved
<1> HIDE DEF e
<1>3. e \in Display /\ Tracked(e) /\ Surfaces(e) = Surfaces(d)
  BY <1>1, KeepsTracked DEF Keeps
<1>. QED
  BY <1>1, <1>2, <1>3, RemoveSurfaceFacts

\* The empty display has no surface and points at nothing.
LEMMA EmptyDisplayFacts ==
    /\ EmptyDisplay \in Display /\ Unique(EmptyDisplay) /\ Tracked(EmptyDisplay)
    /\ Surfaces(EmptyDisplay) = {}
<1>1. EmptyDisplay \in Display
  BY DEF EmptyDisplay, Display, HostRole
<1>2. \A p \in Pid : EmptyDisplay.role[p] = NoSurface
  BY DEF EmptyDisplay
<1>3. Surfaces(EmptyDisplay) = {} /\ Focused(EmptyDisplay) = {}
  BY <1>2 DEF Surfaces, Focused, WithRole, NoSurface
<1>. QED
  BY <1>1, <1>3 DEF Unique, Tracked, EmptyDisplay

-----------------------------------------------------------------------------
(* The split. Without the operator verbs a display is in one of two shapes:  *)
(* one Foreground app, or an overlay with at most one app behind it.         *)

\* The Foreground app, the overlay and the app behind it, each may be missing.
Slots(d, f, o, b) ==
    /\ f \in Pid \cup {NoPid} /\ o \in Pid \cup {NoPid} /\ b \in Pid \cup {NoPid}
    /\ \A p \in Pid : /\ d.role[p] = "Foreground" <=> p = f
                      /\ d.role[p] = "Overlay" <=> p = o
                      /\ d.role[p] = "OverlayBehind" <=> p = b
    /\ o # NoPid => f = NoPid
    /\ b # NoPid => o # NoPid

Neat(d) == \E f, o, b \in Pid \cup {NoPid} : Slots(d, f, o, b)

\* The overlay is up exactly when it is wanted.
Settled(d) == WithRole(d, "Overlay") = {OverlayDesired(d)} \ {NoPid}

\* What the queries answer in each shape.
LEMMA SlotsQueries ==
    ASSUME NEW d \in Display, NEW f, NEW o, NEW b, Slots(d, f, o, b)
    PROVE  /\ FirstWithRole(d, "Foreground") = f
           /\ FirstWithRole(d, "Overlay") = o
           /\ FirstWithRole(d, "OverlayBehind") = b
           /\ WithRole(d, "Overlay") = {o} \ {NoPid}
           /\ WithRole(d, "OverlayBehind") = {b} \ {NoPid}
           /\ OverlayEngaged(d) <=> o # NoPid
           /\ VisibleApp(d) = IF b # NoPid THEN b ELSE f
           /\ ForegroundSlot(d) = IF o # NoPid THEN o ELSE f
           /\ Settled(d) <=> o = OverlayDesired(d)
           /\ Unique(d) /\ Neat(d)
<1>1. NoPid \notin Pid
  BY DEF Pid, NoPid
<1>2. /\ WithRole(d, "Foreground") = {f} \ {NoPid}
      /\ WithRole(d, "Overlay") = {o} \ {NoPid}
      /\ WithRole(d, "OverlayBehind") = {b} \ {NoPid}
  BY <1>1 DEF Slots, WithRole
<1>3. /\ FirstWithRole(d, "Foreground") = f
      /\ FirstWithRole(d, "Overlay") = o
      /\ FirstWithRole(d, "OverlayBehind") = b
  BY <1>2, FirstFound
<1>4. /\ OverlayEngaged(d) <=> o # NoPid
      /\ VisibleApp(d) = IF b # NoPid THEN b ELSE f
      /\ ForegroundSlot(d) = IF o # NoPid THEN o ELSE f
  BY <1>2, <1>3 DEF OverlayEngaged, VisibleApp, ForegroundSlot
<1>5. Settled(d) <=> o = OverlayDesired(d)
  BY <1>2 DEF Settled
<1>6. Unique(d)
  BY <1>2 DEF Unique, Focused, Slots
<1>7. Neat(d)
  <2>1. f \in Pid \cup {NoPid} /\ o \in Pid \cup {NoPid} /\ b \in Pid \cup {NoPid}
    BY DEF Slots
  <2>. QED
    BY <2>1 DEF Neat
<1>. QED
  BY <1>2, <1>3, <1>4, <1>5, <1>6, <1>7

\* Displays with the same roles are in the same shape and show the same app.
LEMMA SlotsSame ==
    ASSUME NEW d \in Display, NEW e \in Display, e.role = d.role,
           NEW f, NEW o, NEW b, Slots(d, f, o, b)
    PROVE  Slots(e, f, o, b) /\ VisibleApp(e) = VisibleApp(d)
<1>1. Slots(e, f, o, b)
  BY DEF Slots
<1>. QED
  BY <1>1, SlotsQueries

\* What is wanted depends on the IME, the editor and the visible app.
LEMMA DesiredSame ==
    ASSUME NEW d, NEW e, e.ime = d.ime, e.editor = d.editor, VisibleApp(e) = VisibleApp(d)
    PROVE  OverlayDesired(e) = OverlayDesired(d)
BY DEF OverlayDesired

\* A surface that leaves the split, or was never in it, for a role outside it.
LEMMA SlotsWithout ==
    ASSUME NEW d, NEW e, NEW f, NEW o, NEW b, Slots(d, f, o, b), NEW p \in Pid, p # o,
           \A q \in Pid : q # p => e.role[q] = d.role[q],
           e.role[p] \notin {"Foreground", "Overlay", "OverlayBehind"}
    PROVE  Slots(e, IF f = p THEN NoPid ELSE f, o, IF b = p THEN NoPid ELSE b)
<1>1. NoPid \notin Pid
  BY DEF Pid, NoPid
<1>. QED
  BY <1>1 DEF Slots

\* Tearing the split down brings the app behind forward.
LEMMA DemoteSlots ==
    ASSUME NEW d \in Display, NEW f, NEW o, NEW b, Slots(d, f, o, b)
    PROVE  /\ o # NoPid => Slots(DemoteFromOverlay(d), b, NoPid, NoPid)
           /\ o = NoPid => DemoteFromOverlay(d) = d
           /\ Keeps(d, DemoteFromOverlay(d))
           /\ DemoteFromOverlay(d).editor = d.editor
<1> DEFINE h == Apply(d, o, "Background")
           e == Apply(h, b, "Foreground")
<1>1. /\ FirstWithRole(d, "Overlay") = o /\ FirstWithRole(d, "OverlayBehind") = b
      /\ Unique(d)
  BY SlotsQueries
<1>2. CASE o = NoPid
  BY <1>1, <1>2 DEF DemoteFromOverlay, Keeps
<1>3. CASE o # NoPid
  <2>1. o \in Pid /\ o \in Surfaces(d)
    BY <1>3 DEF Slots, Surfaces, NoSurface
  <2>2. /\ Keeps(d, h) /\ h.editor = d.editor
        /\ \A q \in Pid : h.role[q] = IF q = o THEN "Background" ELSE d.role[q]
    BY <2>1, ApplyFacts DEF Role
  <2>3. CASE b = NoPid
    <3>1. DemoteFromOverlay(d) = h
      BY <1>1, <1>3, <2>3 DEF DemoteFromOverlay
    <3> HIDE DEF h
    <3>2. Slots(h, b, NoPid, NoPid)
      BY <1>3, <2>2, <2>3 DEF Slots, NoPid, Pid
    <3>. QED
      BY <1>3, <2>2, <3>1, <3>2
  <2>4. CASE b # NoPid
    <3>1. h \in Display /\ b \in Pid /\ b \in Surfaces(h) /\ b # o
      BY <2>2, <2>4 DEF Slots, Keeps, Surfaces, NoSurface
    <3>2. DemoteFromOverlay(d) = e
      BY <1>1, <1>3, <2>4 DEF DemoteFromOverlay
    <3>3. /\ Keeps(h, e) /\ e.editor = h.editor
          /\ \A q \in Pid : e.role[q] = IF q = b THEN "Foreground" ELSE h.role[q]
      BY <3>1, ApplyFacts DEF Role
    <3> HIDE DEF e, h
    <3>4. Slots(e, b, NoPid, NoPid)
      BY <1>3, <2>2, <3>1, <3>3 DEF Slots, NoPid, Pid
    <3>. QED
      BY <1>3, <2>2, <3>2, <3>3, <3>4 DEF Keeps
  <2>. QED
    BY <2>3, <2>4
<1>. QED
  BY <1>2, <1>3

\* The IME goes above the Foreground app.
LEMMA PromoteOverlaySlots ==
    ASSUME NEW d \in Display, NEW f \in Pid, Slots(d, f, NoPid, NoPid),
           NEW p \in Surfaces(d), p # f, NEW hint
    PROVE  /\ Slots(PromoteToOverlay(d, p, hint), NoPid, p, f)
           /\ Keeps(d, PromoteToOverlay(d, p, hint))
           /\ PromoteToOverlay(d, p, hint).editor = d.editor
           /\ PromoteToOverlay(d, p, hint) = Place(Apply(d, f, "OverlayBehind"), p, "Overlay")
<1> DEFINE a == Apply(d, f, "OverlayBehind")
           e == Place(a, p, "Overlay")
<1>1. f # NoPid /\ p \in Pid /\ FirstWithRole(d, "Foreground") = f /\ f \in Surfaces(d)
  BY SlotsQueries DEF Slots, Surfaces, NoSurface, Pid, NoPid
<1>2. /\ Keeps(d, a) /\ a.editor = d.editor
      /\ \A q \in Pid : a.role[q] = IF q = f THEN "OverlayBehind" ELSE d.role[q]
  BY <1>1, ApplyFacts DEF Role
<1>3. PromoteToOverlay(d, p, hint) = e
  BY <1>1 DEF PromoteToOverlay
<1> HIDE DEF a
<1>4. a \in Display /\ "Overlay" \in Role
  BY <1>2 DEF Keeps, Role
<1>5. /\ e \in Display /\ e.ime = a.ime /\ e.editor = a.editor
      /\ Surfaces(e) = Surfaces(a) \cup {p}
      /\ \A q \in Pid : e.role[q] = IF q = p THEN "Overlay" ELSE a.role[q]
  BY <1>1, <1>4, PlaceFacts
<1>6. Slots(e, NoPid, p, f)
  <2> HIDE DEF e
  <2>. QED
    BY <1>1, <1>2, <1>5 DEF Slots, NoPid, Pid
<1>7. Keeps(d, e)
  <2> HIDE DEF e
  <2>. QED
    BY <1>1, <1>2, <1>5 DEF Keeps
<1>. QED
  BY <1>2, <1>3, <1>5, <1>6, <1>7 DEF a

\* reconcile_overlay shows the same app and puts the overlay up or down, unless
\* another overlay than the wanted one is up.
LEMMA ReconcileSlots ==
    ASSUME NEW d \in Display, Tracked(d), NEW f, NEW o, NEW b, Slots(d, f, o, b)
    PROVE  LET e == ReconcileOverlay(d)
               w == OverlayDesired(d)
           IN  /\ Keeps(d, e) /\ e.editor = d.editor
               /\ w # NoPid /\ o = NoPid =>
                    /\ f \in Pid /\ w \in Surfaces(d) /\ w # f /\ b = NoPid
                    /\ e = PromoteToOverlay(d, w, VisibleApp(d))
                    /\ Slots(e, NoPid, w, f)
               /\ w = NoPid /\ o # NoPid =>
                    e = DemoteFromOverlay(d) /\ Slots(e, b, NoPid, NoPid)
               /\ ~(w # NoPid /\ o = NoPid) /\ ~(w = NoPid /\ o # NoPid) => e = d
               /\ Neat(e) /\ VisibleApp(e) = VisibleApp(d)
               /\ OverlayDesired(e) = w
               /\ o \in {NoPid, w} \/ w = NoPid => Settled(e)
<1> DEFINE e == ReconcileOverlay(d)
           w == OverlayDesired(d)
<1>1. /\ OverlayEngaged(d) <=> o # NoPid
      /\ VisibleApp(d) = IF b # NoPid THEN b ELSE f
  BY SlotsQueries
<1>2. ASSUME w # NoPid, o = NoPid
      PROVE  /\ f \in Pid /\ w \in Surfaces(d) /\ w # f /\ b = NoPid
             /\ e = PromoteToOverlay(d, w, VisibleApp(d))
             /\ Slots(e, NoPid, w, f)
             /\ Keeps(d, e) /\ e.editor = d.editor
  <2>1. b = NoPid /\ VisibleApp(d) = f
    BY <1>1, <1>2 DEF Slots
  <2>2. w = d.ime /\ d.ime # NoPid /\ f # NoPid /\ w # f
    BY <1>2, <2>1 DEF OverlayDesired
  <2>3. f \in Pid /\ w \in Surfaces(d) /\ ActiveImeSurface(d) = w
    BY <2>2 DEF Slots, Tracked, ActiveImeSurface
  <2>4. e = PromoteToOverlay(d, w, VisibleApp(d))
    BY <1>1, <1>2, <2>3 DEF ReconcileOverlay
  <2>5. Slots(d, f, NoPid, NoPid)
    BY <1>2, <2>1
  <2>. QED
    BY <2>1, <2>2, <2>3, <2>4, <2>5, PromoteOverlaySlots
<1>3. ASSUME w = NoPid, o # NoPid
      PROVE  /\ e = DemoteFromOverlay(d) /\ Slots(e, b, NoPid, NoPid)
             /\ Keeps(d, e) /\ e.editor = d.editor
  <2>1. e = DemoteFromOverlay(d)
    BY <1>1, <1>3 DEF ReconcileOverlay
  <2>. QED
    BY <1>3, <2>1, DemoteSlots
<1>4. ASSUME ~(w # NoPid /\ o = NoPid), ~(w = NoPid /\ o # NoPid)
      PROVE  e = d /\ Keeps(d, e) /\ e.editor = d.editor
  BY <1>1, <1>4 DEF ReconcileOverlay, Keeps
<1> HIDE DEF e
<1>5. Keeps(d, e) /\ e.editor = d.editor /\ e \in Display
  BY <1>2, <1>3, <1>4 DEF Keeps
<1>6. Neat(e) /\ VisibleApp(e) = VisibleApp(d)
  <2>1. CASE w # NoPid /\ o = NoPid
    <3>1. Slots(e, NoPid, w, f) /\ f # NoPid /\ b = NoPid
      BY <1>2, <2>1 DEF Pid, NoPid
    <3>2. Neat(e) /\ VisibleApp(e) = f
      BY <1>5, <3>1, SlotsQueries
    <3>. QED
      BY <1>1, <3>1, <3>2
  <2>2. CASE w = NoPid /\ o # NoPid
    <3>1. Slots(e, b, NoPid, NoPid) /\ f = NoPid
      BY <1>3, <2>2 DEF Slots
    <3>2. Neat(e) /\ VisibleApp(e) = b
      BY <1>5, <3>1, SlotsQueries
    <3>. QED
      BY <1>1, <3>1, <3>2
  <2>3. CASE ~(w # NoPid /\ o = NoPid) /\ ~(w = NoPid /\ o # NoPid)
    BY <1>4, <2>3, SlotsQueries
  <2>. QED
    BY <2>1, <2>2, <2>3
<1>7. OverlayDesired(e) = w
  BY <1>5, <1>6, DesiredSame DEF Keeps
<1>8. o \in {NoPid, w} \/ w = NoPid => Settled(e)
  <2>1. CASE w # NoPid /\ o = NoPid
    BY <1>2, <1>5, <1>7, <2>1, SlotsQueries
  <2>2. CASE w = NoPid /\ o # NoPid
    BY <1>3, <1>5, <1>7, <2>2, SlotsQueries
  <2>3. CASE ~(w # NoPid /\ o = NoPid) /\ ~(w = NoPid /\ o # NoPid)
    BY <1>4, <1>7, <2>3, SlotsQueries
  <2>. QED
    BY <2>1, <2>2, <2>3
<1>. QED
  BY <1>2, <1>3, <1>4, <1>5, <1>6, <1>7, <1>8 DEF e

\* An overlay is above an app, never above nothing.
Backed(d) == VisibleApp(d) = NoPid => ~OverlayEngaged(d)

\* reconcile_overlay takes an overlay down when there is nothing under it.
LEMMA ReconcileBacks ==
    ASSUME NEW d \in Display, Tracked(d), Neat(d)
    PROVE  Backed(ReconcileOverlay(d))
<1> DEFINE e == ReconcileOverlay(d)
<1>1. PICK f, o, b \in Pid \cup {NoPid} : Slots(d, f, o, b)
  BY DEF Neat
<1>2. SUFFICES ASSUME VisibleApp(e) = NoPid
               PROVE  ~OverlayEngaged(e)
  BY DEF Backed
<1>3. Keeps(d, e) /\ VisibleApp(d) = NoPid
  BY <1>1, <1>2, ReconcileSlots
<1>4. OverlayDesired(d) = NoPid
  BY <1>3 DEF OverlayDesired
<1>5. CASE o # NoPid
  <2>1. Slots(e, b, NoPid, NoPid)
    BY <1>1, <1>4, <1>5, ReconcileSlots
  <2>. QED
    BY <1>3, <2>1, SlotsQueries DEF Keeps
<1>6. CASE o = NoPid
  <2>1. e = d
    BY <1>1, <1>4, <1>6, ReconcileSlots
  <2>. QED
    BY <1>1, <1>6, <2>1, SlotsQueries
<1>. QED
  BY <1>5, <1>6

\* The reaction to ForegroundChanged shows the same app; only that app may keep
\* the input focus.
LEMMA OnForegroundChangedSlots ==
    ASSUME NEW d \in Display, Tracked(d), NEW f, NEW o, NEW b, Slots(d, f, o, b)
    PROVE  LET e == OnForegroundChanged(d)
           IN  /\ Keeps(d, e)
               /\ e.editor = IF d.editor = VisibleApp(d) THEN d.editor ELSE NoPid
               /\ Neat(e) /\ Backed(e) /\ VisibleApp(e) = VisibleApp(d)
               /\ o \in {NoPid, OverlayDesired(d)} \/ OverlayDesired(e) = NoPid => Settled(e)
<1> DEFINE g == IF d.editor # NoPid /\ d.editor # VisibleApp(d)
                THEN DropEditorFocusOf(d, d.editor) ELSE d
           e == OnForegroundChanged(d)
<1>1. Keeps(d, g) /\ g.role = d.role
  BY DropFacts DEF Keeps
<1>2. g.editor = IF d.editor = VisibleApp(d) THEN d.editor ELSE NoPid
  <2>1. CASE d.editor # NoPid /\ d.editor # VisibleApp(d)
    <3> DEFINE h == [d EXCEPT !.editor = NoPid]
    <3>1. h \in Display /\ h.editor = NoPid
      BY EditorFacts
    <3>2. g = Untell(h, ActiveImeSurface(d))
      BY <2>1 DEF DropEditorFocusOf
    <3> HIDE DEF h, g
    <3>. QED
      BY <2>1, <3>1, <3>2, ActiveImeType, TellFacts
  <2>2. CASE ~(d.editor # NoPid /\ d.editor # VisibleApp(d))
    BY <2>2
  <2>. QED
    BY <2>1, <2>2
<1>3. e = ReconcileOverlay(g)
  BY DEF OnForegroundChanged
<1> HIDE DEF g, e
<1>4. g \in Display /\ Tracked(g)
  BY <1>1, KeepsTracked
<1>5. Slots(g, f, o, b) /\ VisibleApp(g) = VisibleApp(d)
  BY <1>1, <1>4, SlotsSame
<1>6. /\ Keeps(g, e) /\ e.editor = g.editor
      /\ Neat(e) /\ VisibleApp(e) = VisibleApp(g) /\ OverlayDesired(e) = OverlayDesired(g)
      /\ o \in {NoPid, OverlayDesired(g)} \/ OverlayDesired(g) = NoPid => Settled(e)
  BY <1>3, <1>4, <1>5, ReconcileSlots
<1>7. Backed(e)
  <2>1. Neat(g)
    BY <1>4, <1>5, SlotsQueries
  <2>. QED
    BY <1>3, <1>4, <2>1, ReconcileBacks
<1>8. OverlayDesired(g) \in {OverlayDesired(d), NoPid}
  BY <1>1, <1>2, <1>5 DEF OverlayDesired, Keeps
<1>9. Keeps(d, e)
  BY <1>1, <1>6 DEF Keeps
<1>. QED
  BY <1>2, <1>5, <1>6, <1>7, <1>8, <1>9 DEF e

\* A surface placed in the Foreground.
LEMMA PlaceForeground ==
    ASSUME NEW d \in Display, NEW p \in Pid
    PROVE  LET e == Place(d, p, "Foreground")
           IN  /\ e \in Display /\ e.ime = d.ime /\ e.editor = d.editor
               /\ Surfaces(e) = Surfaces(d) \cup {p}
               /\ \A q \in Pid : e.role[q] = IF q = p THEN "Foreground" ELSE d.role[q]
<1>1. "Foreground" \in Role
  BY DEF Role
<1>. QED
  BY <1>1, PlaceFacts

\* promote_to_foreground shows its target, whatever was up before; nobody else
\* keeps the input focus and the keyboard is as that app wants it.
LEMMA PromoteSlots ==
    ASSUME NEW d \in Display, Tracked(d), Neat(d), NEW p \in Pid
    PROVE  LET e == PromoteToForeground(d, p)
           IN  /\ Grows(d, e, p)
               /\ Neat(e) /\ Backed(e) /\ Settled(e)
               /\ VisibleApp(e) = p
               /\ e.editor \in {NoPid, p}
<1> DEFINE split == IF OverlayEngaged(d) THEN DemoteFromOverlay(d) ELSE d
           prev  == FirstWithRole(split, "Foreground")
           back  == Apply(split, prev, "Background")
           alone == IF prev # NoPid /\ prev # p
                    THEN DropEditorFocusOf(back, prev) ELSE split
           n == Place(alone, p, "Foreground")
           m == ReconcileOverlay(n)
           e == PromoteToForeground(d, p)
<1>1. PICK f, o, b \in Pid \cup {NoPid} : Slots(d, f, o, b)
  BY DEF Neat
<1>2. \E v \in Pid \cup {NoPid} : Slots(split, v, NoPid, NoPid)
  <2>1. CASE o # NoPid
    BY <1>1, <2>1, SlotsQueries, DemoteSlots
  <2>2. CASE o = NoPid
    <3>1. b = NoPid
      BY <1>1, <2>2 DEF Slots
    <3>. QED
      BY <1>1, <2>2, <3>1, SlotsQueries
  <2>. QED
    BY <2>1, <2>2
<1>3. Keeps(d, split)
  BY <1>1, DemoteSlots DEF Keeps
<1>4. e = OnForegroundChanged(m)
  BY DEF PromoteToForeground
<1>5. p # NoPid /\ NoPid \notin Pid
  BY DEF Pid, NoPid
<1> HIDE DEF split, e
<1>6. split \in Display
  BY <1>3 DEF Keeps
<1>7. PICK v \in Pid \cup {NoPid} : Slots(split, v, NoPid, NoPid)
  BY <1>2
<1>8. prev = v
  BY <1>6, <1>7, SlotsQueries
<1>9. Keeps(split, alone) /\ Slots(alone, IF v = p THEN p ELSE NoPid, NoPid, NoPid)
  <2>1. CASE prev # NoPid /\ prev # p
    <3>1. prev \in Pid /\ prev \in Surfaces(split)
      BY <1>7, <1>8, <2>1 DEF Slots, Surfaces, NoSurface
    <3>2. /\ Keeps(split, back) /\ back.editor = split.editor
          /\ \A q \in Pid : back.role[q] = IF q = prev THEN "Background" ELSE split.role[q]
      BY <1>6, <3>1, ApplyFacts DEF Role
    <3>3. Keeps(back, DropEditorFocusOf(back, prev)) /\ DropEditorFocusOf(back, prev).role = back.role
      BY <3>2, DropFacts DEF Keeps
    <3>4. alone = DropEditorFocusOf(back, prev)
      BY <2>1
    <3> HIDE DEF alone, back
    <3>5. Slots(alone, NoPid, NoPid, NoPid)
      BY <1>5, <1>7, <1>8, <3>1, <3>2, <3>3, <3>4 DEF Slots
    <3>. QED
      BY <1>8, <2>1, <3>2, <3>3, <3>4, <3>5 DEF Keeps
  <2>2. CASE ~(prev # NoPid /\ prev # p)
    <3>1. alone = split
      BY <2>2
    <3>. QED
      BY <1>6, <1>7, <1>8, <2>2, <3>1 DEF Keeps
  <2>. QED
    BY <2>1, <2>2
<1> HIDE DEF alone, prev
<1>10. alone \in Display
  BY <1>9 DEF Keeps
<1> HIDE DEF n
<1>11. /\ n \in Display /\ n.ime = alone.ime /\ n.editor = alone.editor
       /\ Surfaces(n) = Surfaces(alone) \cup {p}
       /\ \A q \in Pid : n.role[q] = IF q = p THEN "Foreground" ELSE alone.role[q]
  BY <1>10, PlaceForeground DEF n
<1>12. Slots(n, p, NoPid, NoPid)
  BY <1>5, <1>9, <1>11 DEF Slots
<1>13. Grows(d, n, p) /\ Tracked(n) /\ VisibleApp(n) = p
  BY <1>3, <1>9, <1>11, <1>12, SlotsQueries DEF Keeps, Grows, Tracked
<1>14. /\ Keeps(n, m) /\ Neat(m) /\ VisibleApp(m) = p /\ Settled(m)
  BY <1>11, <1>12, <1>13, ReconcileSlots
<1> HIDE DEF m
<1>15. m \in Display /\ Tracked(m)
  BY <1>13, <1>14, KeepsTracked
<1>16. PICK g, h, k \in Pid \cup {NoPid} : Slots(m, g, h, k)
  BY <1>14 DEF Neat
<1>17. h = OverlayDesired(m)
  BY <1>14, <1>15, <1>16, SlotsQueries
<1>18. /\ Keeps(m, e) /\ Neat(e) /\ Backed(e) /\ VisibleApp(e) = p /\ Settled(e)
       /\ e.editor \in {NoPid, p}
  BY <1>4, <1>14, <1>15, <1>16, <1>17, OnForegroundChangedSlots
<1>19. Grows(d, e, p)
  BY <1>13, <1>14, <1>18 DEF Grows, Keeps
<1>. QED
  BY <1>18, <1>19 DEF e
\* A surface that is new and not shown leaves the split alone.
LEMMA SlotsFresh ==
    ASSUME NEW d \in Display, NEW e \in Display, Neat(d), NEW p \in Pid \ Surfaces(d),
           NEW r \in {"Background", "Chrome", "Headless"},
           \A q \in Pid : e.role[q] = IF q = p THEN r ELSE d.role[q]
    PROVE  /\ Neat(e) /\ VisibleApp(e) = VisibleApp(d)
           /\ WithRole(e, "Overlay") = WithRole(d, "Overlay")
           /\ ForegroundSlot(e) = ForegroundSlot(d)
<1>1. PICK f, o, b \in Pid \cup {NoPid} : Slots(d, f, o, b)
  BY DEF Neat
<1>2. d.role[p] = NoSurface
  BY DEF Surfaces
<1>3. Slots(e, f, o, b)
  BY <1>1, <1>2 DEF Slots, NoSurface
<1>. QED
  BY <1>1, <1>3, SlotsQueries

\* remove_surface, field by field.
LEMMA RemoveFields ==
    ASSUME NEW d \in Display, NEW p \in Pid
    PROVE  LET e == RemoveSurface(d, p)
           IN  /\ \A q \in Pid : e.role[q] = IF q = p THEN NoSurface ELSE d.role[q]
               /\ \A q \in Pid : q # p => e.host[q] = d.host[q]
               /\ e.told = d.told \ {p}
               /\ e.ime = IF d.ime = p THEN NoPid ELSE d.ime
               /\ e.editor = IF d.editor = p THEN NoPid ELSE d.editor
BY DEF RemoveSurface, Display

\* The exit of a process tears down a split it was part of; the app that is shown
\* stays unless it is the one that went, and a settled keyboard stays settled.
LEMMA RemovedSlots ==
    ASSUME NEW d \in Display, Tracked(d), Neat(d), NEW p \in Pid
    PROVE  LET e == OnSurfaceRemoved(d, p)
           IN  /\ e \in Display /\ Tracked(e) /\ Neat(e)
               /\ Surfaces(e) = Surfaces(d) \ {p}
               /\ VisibleApp(e) = IF VisibleApp(d) = p THEN NoPid ELSE VisibleApp(d)
               /\ e.ime = IF d.ime = p THEN NoPid ELSE d.ime
               /\ e.editor = IF d.editor = p THEN NoPid ELSE d.editor
               /\ Backed(d) => Backed(e)
               /\ Settled(d) /\ d.ime # p => Settled(e)
<1> DEFINE involved == \/ FirstWithRole(d, "Overlay") = p
                       \/ FirstWithRole(d, "OverlayBehind") = p
           g == IF OverlayEngaged(d) /\ involved THEN DemoteFromOverlay(d) ELSE d
           e == OnSurfaceRemoved(d, p)
<1>1. PICK f, o, b \in Pid \cup {NoPid} : Slots(d, f, o, b)
  BY DEF Neat
<1>2. /\ OverlayEngaged(d) <=> o # NoPid
      /\ involved <=> o = p \/ b = p
      /\ VisibleApp(d) = IF b # NoPid THEN b ELSE f
      /\ Settled(d) <=> o = OverlayDesired(d)
      /\ Unique(d)
  BY <1>1, SlotsQueries
<1>3. Keeps(d, g) /\ g.editor = d.editor
  BY <1>1, <1>2, DemoteSlots DEF Keeps
<1>4. e = RemoveSurface(g, p)
  BY DEF OnSurfaceRemoved
<1>5. NoPid \notin Pid
  BY DEF Pid, NoPid
<1>6. ASSUME p \in {o, b} PROVE Slots(g, b, NoPid, NoPid)
  <2>1. o # NoPid
    BY <1>1, <1>5, <1>6 DEF Slots
  <2>2. g = DemoteFromOverlay(d)
    BY <1>2, <1>6, <2>1
  <2>. QED
    BY <1>1, <2>1, <2>2, DemoteSlots
<1>7. p \notin {o, b} => g = d
  BY <1>2
<1> HIDE DEF g, e, involved
<1>8. g \in Display /\ g.ime = d.ime
  BY <1>3 DEF Keeps
<1>9. /\ e \in Display /\ Surfaces(e) = Surfaces(d) \ {p} /\ Tracked(e)
  BY <1>1, <1>2, OnSurfaceRemovedFacts DEF e
<1>10. /\ \A q \in Pid : e.role[q] = IF q = p THEN NoSurface ELSE g.role[q]
       /\ e.ime = IF d.ime = p THEN NoPid ELSE d.ime
       /\ e.editor = IF d.editor = p THEN NoPid ELSE d.editor
  BY <1>3, <1>4, <1>8, RemoveFields
<1>11. NoSurface \notin {"Foreground", "Overlay", "OverlayBehind"}
  BY DEF NoSurface
<1>12. CASE p \in {o, b}
  <2>1. Slots(e, IF b = p THEN NoPid ELSE b, NoPid, NoPid)
    BY <1>5, <1>6, <1>10, <1>11, <1>12, SlotsWithout
  <2>2. /\ Neat(e) /\ ~OverlayEngaged(e)
        /\ VisibleApp(e) = IF b = p THEN NoPid ELSE b
        /\ Settled(e) <=> OverlayDesired(e) = NoPid
    BY <1>9, <2>1, SlotsQueries
  <2>3. f = NoPid
    BY <1>1, <1>5, <1>12 DEF Slots
  <2>4. VisibleApp(e) = IF VisibleApp(d) = p THEN NoPid ELSE VisibleApp(d)
    BY <1>2, <1>5, <2>2, <2>3
  <2>5. ASSUME Settled(d), d.ime # p PROVE OverlayDesired(e) = NoPid
    <3>1. o # p
      <4>1. OverlayDesired(d) \in {d.ime, NoPid}
        BY DEF OverlayDesired
      <4>. QED
        BY <1>2, <1>5, <2>5, <4>1
    <3>2. VisibleApp(e) = NoPid
      BY <1>12, <2>2, <3>1
    <3>. QED
      BY <3>2 DEF OverlayDesired
  <2>. QED
    BY <1>9, <1>10, <2>2, <2>4, <2>5 DEF Backed, e
<1>13. CASE p \notin {o, b}
  <2>1. Slots(e, IF f = p THEN NoPid ELSE f, o, b)
    BY <1>1, <1>7, <1>10, <1>11, <1>13, SlotsWithout
  <2>2. /\ Neat(e)
        /\ OverlayEngaged(e) <=> o # NoPid
        /\ VisibleApp(e) = IF b # NoPid THEN b ELSE IF f = p THEN NoPid ELSE f
        /\ Settled(e) <=> o = OverlayDesired(e)
    BY <1>9, <2>1, SlotsQueries
  <2>3. VisibleApp(e) = IF VisibleApp(d) = p THEN NoPid ELSE VisibleApp(d)
    BY <1>2, <1>5, <1>13, <2>2
  <2>4. Backed(d) => Backed(e)
    BY <1>1, <1>2, <1>5, <1>13, <2>2, <2>3 DEF Backed, Slots
  <2>5. ASSUME Settled(d), d.ime # p PROVE o = OverlayDesired(e)
    <3>1. o = OverlayDesired(d)
      BY <1>2, <2>5
    <3>2. CASE VisibleApp(d) = p
      <4>1. VisibleApp(e) = NoPid /\ f = p
        BY <1>2, <1>5, <1>13, <2>3, <3>2
      <4>. QED
        BY <1>1, <1>5, <4>1 DEF OverlayDesired, Slots
    <3>3. CASE VisibleApp(d) # p
      BY <1>10, <2>3, <2>5, <3>1, <3>3 DEF OverlayDesired
    <3>. QED
      BY <3>2, <3>3
  <2>. QED
    BY <1>9, <1>10, <2>2, <2>3, <2>4, <2>5 DEF e
<1>. QED
  BY <1>12, <1>13
-----------------------------------------------------------------------------
(* What processes were told *)

\* Every surface but x was last told the role it has.
HostedBut(d, x) ==
    \A p \in Surfaces(d) \ {x} : d.host[p] = Mechanism(d.role[p], d.host[p])

Hosted(d) == HostedBut(d, NoPid)

\* Nobody is told of an editor, and if the focus was lost the IME was told.
Retold(d, e) ==
    /\ e.told \subseteq d.told
    /\ d.editor # NoPid /\ e.editor = NoPid => d.ime \notin e.told

\* Being told a role twice is being told it once.
LEMMA MechanismTwice == \A r, old : Mechanism(r, Mechanism(r, old)) = Mechanism(r, old)
BY DEF Mechanism

\* Roles and their signals, field by field: the model's half and the process's.
LEMMA RestFacts ==
    ASSUME NEW d \in Display, NEW p \in Pid, NEW r \in Role
    PROVE  /\ SetRole(d, p, r).host = d.host /\ SetRole(d, p, r).told = d.told
           /\ PutSurface(d, p, r).host = d.host /\ PutSurface(d, p, r).told = d.told
           /\ ApplyRole(d, p, r).told = d.told
           /\ \A q \in Pid : ApplyRole(d, p, r).host[q] =
                  IF q = p THEN Mechanism(r, d.host[p]) ELSE d.host[q]
BY DEF SetRole, PutSurface, ApplyRole, Display

\* apply() and the placing of a surface tell the process what the model records.
LEMMA ToldFacts ==
    ASSUME NEW d \in Display, NEW p \in Pid, NEW r \in Role
    PROVE  /\ Apply(d, p, r).told = d.told /\ Place(d, p, r).told = d.told
           /\ \A q \in Pid : Apply(d, p, r).host[q] =
                  IF q = p THEN Mechanism(r, d.host[p]) ELSE d.host[q]
           /\ \A q \in Pid : Place(d, p, r).host[q] =
                  IF q = p THEN Mechanism(r, d.host[p]) ELSE d.host[q]
<1> DEFINE e == ApplyRole(d, p, r)
<1>1. e \in Display
  BY ApplyRoleFacts DEF Keeps
<1>2. /\ e.told = d.told
      /\ \A q \in Pid : e.host[q] = IF q = p THEN Mechanism(r, d.host[p]) ELSE d.host[q]
  BY RestFacts
<1>3. Apply(d, p, r) = SetRole(e, p, r) /\ Place(d, p, r) = PutSurface(e, p, r)
  BY DEF Apply, Place
<1> HIDE DEF e
<1>. QED
  BY <1>1, <1>2, <1>3, RestFacts

\* A role change that is signalled keeps hosts and roles together.
LEMMA HostedStep ==
    ASSUME NEW d \in Display, NEW x, HostedBut(d, x), NEW p \in Pid, NEW r \in Role
    PROVE  /\ HostedBut(Apply(d, p, r), x)
           /\ HostedBut(Place(d, p, r), x)
           /\ x = p => Hosted(Place(d, p, r))
<1> DEFINE a == Apply(d, p, r)
           e == Place(d, p, r)
<1>1. /\ \A q \in Pid : a.role[q] = IF q = p /\ p \in Surfaces(d) THEN r ELSE d.role[q]
      /\ \A q \in Pid : a.host[q] = IF q = p THEN Mechanism(r, d.host[p]) ELSE d.host[q]
      /\ Surfaces(a) = Surfaces(d)
  BY ApplyFacts, ToldFacts DEF Keeps
<1>2. /\ \A q \in Pid : e.role[q] = IF q = p THEN r ELSE d.role[q]
      /\ \A q \in Pid : e.host[q] = IF q = p THEN Mechanism(r, d.host[p]) ELSE d.host[q]
      /\ Surfaces(e) = Surfaces(d) \cup {p}
  BY PlaceFacts, ToldFacts
<1>3. \A q \in Surfaces(d) \ {x} : q \in Pid /\ d.host[q] = Mechanism(d.role[q], d.host[q])
  BY DEF HostedBut, Surfaces
<1> HIDE DEF a, e
<1>4. HostedBut(a, x)
  BY <1>1, <1>3, MechanismTwice DEF HostedBut
<1>5. HostedBut(e, x) /\ (x = p => Hosted(e))
  BY <1>2, <1>3, MechanismTwice DEF HostedBut, Hosted
<1>. QED
  BY <1>4, <1>5 DEF a, e

\* Displays with the same roles and signals are both right or both wrong.
LEMMA HostedSame ==
    ASSUME NEW d, NEW e, e.role = d.role, e.host = d.host, NEW x, HostedBut(d, x)
    PROVE  HostedBut(e, x)
BY DEF HostedBut, Surfaces

\* finishInput() tells the IME, and nobody else.
LEMMA DropTold ==
    ASSUME NEW d \in Display, Tracked(d), NEW p
    PROVE  /\ DropEditorFocusOf(d, p).host = d.host
           /\ Retold(d, DropEditorFocusOf(d, p))
<1>1. CASE d.editor # p
  BY <1>1 DEF DropEditorFocusOf, Retold
<1>2. CASE d.editor = p
  <2> DEFINE g == [d EXCEPT !.editor = NoPid]
  <2>1. g.host = d.host /\ g.told = d.told /\ g \in Display
    BY EditorFacts DEF Display
  <2>2. DropEditorFocusOf(d, p) = [g EXCEPT !.told = @ \ {ActiveImeSurface(d)}]
    BY <1>2 DEF DropEditorFocusOf, Untell
  <2>3. d.ime \notin d.told \ {ActiveImeSurface(d)}
    BY DEF ActiveImeSurface, Tracked, Display, Pid, NoPid
  <2>4. /\ [g EXCEPT !.told = @ \ {ActiveImeSurface(d)}].host = d.host
        /\ [g EXCEPT !.told = @ \ {ActiveImeSurface(d)}].told = d.told \ {ActiveImeSurface(d)}
    <3> HIDE DEF g
    <3>. QED
      BY <2>1 DEF Display
  <2>. QED
    BY <2>2, <2>3, <2>4 DEF Retold
<1>. QED
  BY <1>1, <1>2

\* Handlers run one after another: what the first told is not taken back.
LEMMA RetoldTwice ==
    ASSUME NEW d, NEW e, NEW g, Retold(d, e), Retold(e, g), e.ime = d.ime
    PROVE  Retold(d, g)
BY DEF Retold

\* Tearing a split down signals both its apps, and no editor.
LEMMA DemoteTold ==
    ASSUME NEW d \in Display, NEW x
    PROVE  /\ DemoteFromOverlay(d).told = d.told
           /\ HostedBut(d, x) => HostedBut(DemoteFromOverlay(d), x)
<1> DEFINE o == FirstWithRole(d, "Overlay")
           b == FirstWithRole(d, "OverlayBehind")
           h == Apply(d, o, "Background")
           e == Apply(h, b, "Foreground")
<1>1. o \in Pid \cup {NoPid} /\ b \in Pid \cup {NoPid}
  BY FirstFound DEF WithRole
<1>2. CASE o = NoPid
  BY <1>2 DEF DemoteFromOverlay
<1>3. CASE o # NoPid
  <2>1. h \in Display /\ h.told = d.told /\ (HostedBut(d, x) => HostedBut(h, x))
    BY <1>1, <1>3, ApplyFacts, ToldFacts, HostedStep DEF Keeps, Role
  <2>2. CASE b = NoPid
    BY <1>3, <2>1, <2>2 DEF DemoteFromOverlay
  <2>3. CASE b # NoPid
    <3>1. DemoteFromOverlay(d) = e
      BY <1>3, <2>3 DEF DemoteFromOverlay
    <3> HIDE DEF h
    <3>2. e.told = h.told /\ (HostedBut(h, x) => HostedBut(e, x))
      BY <1>1, <2>1, <2>3, ToldFacts, HostedStep DEF Role
    <3>. QED
      BY <2>1, <3>1, <3>2
  <2>. QED
    BY <2>2, <2>3
<1>. QED
  BY <1>2, <1>3

\* reconcile_overlay signals what it changes, and no editor. The app under the
\* keyboard is signalled because it was Foreground.
LEMMA ReconcileTold ==
    ASSUME NEW d \in Display, Tracked(d), Neat(d), NEW x
    PROVE  /\ ReconcileOverlay(d).told = d.told
           /\ HostedBut(d, x) => HostedBut(ReconcileOverlay(d), x)
<1> DEFINE e == ReconcileOverlay(d)
           w == OverlayDesired(d)
<1>1. PICK f, o, b \in Pid \cup {NoPid} : Slots(d, f, o, b)
  BY DEF Neat
<1>2. CASE w # NoPid /\ o = NoPid
  <2>1. /\ f \in Pid /\ w \in Surfaces(d) /\ w # f /\ b = NoPid
        /\ e = PromoteToOverlay(d, w, VisibleApp(d))
    BY <1>1, <1>2, ReconcileSlots
  <2> DEFINE a == Apply(d, f, "OverlayBehind")
  <2>2. e = Place(a, w, "Overlay")
    BY <1>1, <1>2, <2>1, PromoteOverlaySlots
  <2>3. a \in Display /\ a.told = d.told /\ (HostedBut(d, x) => HostedBut(a, x))
    BY <2>1, ApplyFacts, ToldFacts, HostedStep DEF Keeps, Role
  <2> HIDE DEF a, w
  <2>4. w \in Pid /\ "Overlay" \in Role
    BY <2>1 DEF Surfaces, Role
  <2>5. e.told = a.told /\ (HostedBut(a, x) => HostedBut(e, x))
    BY <2>2, <2>3, <2>4, ToldFacts, HostedStep
  <2>. QED
    BY <2>3, <2>5
<1>3. CASE w = NoPid /\ o # NoPid
  <2>1. e = DemoteFromOverlay(d)
    BY <1>1, <1>3, ReconcileSlots
  <2>. QED
    BY <2>1, DemoteTold
<1>4. CASE ~(w # NoPid /\ o = NoPid) /\ ~(w = NoPid /\ o # NoPid)
  <2>1. e = d
    BY <1>1, <1>4, ReconcileSlots
  <2>. QED
    BY <2>1
<1>. QED
  BY <1>2, <1>3, <1>4

\* The reaction to ForegroundChanged tells the IME when it takes the focus away.
LEMMA OnForegroundChangedTold ==
    ASSUME NEW d \in Display, Tracked(d), Neat(d), NEW x
    PROVE  /\ Retold(d, OnForegroundChanged(d))
           /\ HostedBut(d, x) => HostedBut(OnForegroundChanged(d), x)
<1> DEFINE g == IF d.editor # NoPid /\ d.editor # VisibleApp(d)
                THEN DropEditorFocusOf(d, d.editor) ELSE d
           e == OnForegroundChanged(d)
<1>1. Keeps(d, g) /\ g.role = d.role /\ g.host = d.host /\ Retold(d, g)
  <2>1. Keeps(d, d) /\ Retold(d, d)
    BY DEF Keeps, Retold
  <2>. QED
    BY <2>1, DropFacts, DropTold
<1>2. e = ReconcileOverlay(g)
  BY DEF OnForegroundChanged
<1> HIDE DEF g, e
<1>3. g \in Display /\ Tracked(g) /\ g.ime = d.ime
  BY <1>1, KeepsTracked DEF Keeps
<1>4. Neat(g)
  <2>1. PICK f, o, b \in Pid \cup {NoPid} : Slots(d, f, o, b)
    BY DEF Neat
  <2>2. Slots(g, f, o, b)
    BY <1>1, <1>3, <2>1, SlotsSame
  <2>. QED
    BY <1>3, <2>2, SlotsQueries
<1>5. /\ e.told = g.told /\ e.editor = g.editor
      /\ HostedBut(g, x) => HostedBut(e, x)
  <2>1. PICK f, o, b \in Pid \cup {NoPid} : Slots(g, f, o, b)
    BY <1>4 DEF Neat
  <2>. QED
    BY <1>2, <1>3, <1>4, <2>1, ReconcileTold, ReconcileSlots
<1>6. Retold(d, e)
  BY <1>1, <1>5 DEF Retold
<1>7. HostedBut(d, x) => HostedBut(e, x)
  BY <1>1, <1>5, HostedSame
<1>. QED
  BY <1>6, <1>7 DEF e

\* promote_to_foreground signals what it changes, its target included, and tells
\* the IME when it takes the focus away.
LEMMA PromoteTold ==
    ASSUME NEW d \in Display, Tracked(d), Neat(d), NEW p \in Pid
    PROVE  /\ Retold(d, PromoteToForeground(d, p))
           /\ HostedBut(d, p) => Hosted(PromoteToForeground(d, p))
           /\ Hosted(d) => Hosted(PromoteToForeground(d, p))
<1> DEFINE split == IF OverlayEngaged(d) THEN DemoteFromOverlay(d) ELSE d
           prev  == FirstWithRole(split, "Foreground")
           back  == Apply(split, prev, "Background")
           alone == IF prev # NoPid /\ prev # p
                    THEN DropEditorFocusOf(back, prev) ELSE split
           n == Place(alone, p, "Foreground")
           m == ReconcileOverlay(n)
           e == PromoteToForeground(d, p)
<1>1. Hosted(d) => HostedBut(d, p)
  BY DEF Hosted, HostedBut, Surfaces, Pid, NoPid
<1>2. PICK f, o, b \in Pid \cup {NoPid} : Slots(d, f, o, b)
  BY DEF Neat
<1>3. /\ Keeps(d, split) /\ split.editor = d.editor /\ split.told = d.told
      /\ \E v \in Pid \cup {NoPid} : Slots(split, v, NoPid, NoPid)
      /\ HostedBut(d, p) => HostedBut(split, p)
  <2>1. CASE o # NoPid
    <3>1. split = DemoteFromOverlay(d)
      BY <1>2, <2>1, SlotsQueries
    <3>. QED
      BY <1>2, <2>1, <3>1, DemoteSlots, DemoteTold
  <2>2. CASE o = NoPid
    <3>1. split = d /\ b = NoPid
      BY <1>2, <2>2, SlotsQueries DEF Slots
    <3>. QED
      BY <1>2, <2>2, <3>1 DEF Keeps
  <2>. QED
    BY <2>1, <2>2
<1>4. e = OnForegroundChanged(m)
  BY DEF PromoteToForeground
<1>5. p # NoPid /\ NoPid \notin Pid
  BY DEF Pid, NoPid
<1> HIDE DEF split, e
<1>6. split \in Display /\ Tracked(split)
  BY <1>3, KeepsTracked
<1>7. PICK v \in Pid \cup {NoPid} : Slots(split, v, NoPid, NoPid)
  BY <1>3
<1>8. prev = v
  BY <1>6, <1>7, SlotsQueries
<1>9. /\ Keeps(split, alone) /\ Retold(split, alone)
      /\ HostedBut(split, p) => HostedBut(alone, p)
      /\ \A q \in Pid : alone.role[q] = IF q = v /\ v # p THEN "Background" ELSE split.role[q]
  <2>1. CASE prev # NoPid /\ prev # p
    <3>1. prev \in Pid /\ prev \in Surfaces(split)
      BY <1>7, <1>8, <2>1 DEF Slots, Surfaces, NoSurface
    <3>2. /\ Keeps(split, back) /\ back.editor = split.editor /\ back.told = split.told
          /\ \A q \in Pid : back.role[q] = IF q = prev THEN "Background" ELSE split.role[q]
          /\ HostedBut(split, p) => HostedBut(back, p)
      BY <1>6, <3>1, ApplyFacts, ToldFacts, HostedStep DEF Role
    <3>3. alone = DropEditorFocusOf(back, prev)
      BY <2>1
    <3> HIDE DEF alone, back
    <3>4. back \in Display /\ Tracked(back) /\ back.ime = split.ime
      BY <1>6, <3>2, KeepsTracked DEF Keeps
    <3>5. /\ Keeps(back, alone) /\ alone.role = back.role /\ alone.host = back.host
          /\ Retold(back, alone)
      BY <3>3, <3>4, DropFacts, DropTold
    <3>6. HostedBut(back, p) => HostedBut(alone, p)
      BY <3>5, HostedSame
    <3>7. Retold(split, alone)
      BY <3>2, <3>4, <3>5 DEF Retold
    <3>8. Keeps(split, alone)
      BY <3>2, <3>5 DEF Keeps
    <3>9. \A q \in Pid : alone.role[q] = IF q = v /\ v # p THEN "Background" ELSE split.role[q]
      BY <1>8, <2>1, <3>2, <3>5
    <3>. QED
      BY <3>2, <3>6, <3>7, <3>8, <3>9
  <2>2. CASE ~(prev # NoPid /\ prev # p)
    <3>1. alone = split
      BY <2>2
    <3>2. Keeps(split, split) /\ Retold(split, split)
      BY <1>6 DEF Keeps, Retold
    <3>3. ~(v \in Pid /\ v # p)
      BY <1>5, <1>8, <2>2
    <3> HIDE DEF alone
    <3>. QED
      BY <3>1, <3>2, <3>3
  <2>. QED
    BY <2>1, <2>2
<1> HIDE DEF alone, prev
<1>10. alone \in Display /\ Tracked(alone)
  BY <1>6, <1>9, KeepsTracked
<1>11. /\ n \in Display /\ n.ime = alone.ime /\ n.editor = alone.editor
       /\ Surfaces(n) = Surfaces(alone) \cup {p}
       /\ \A q \in Pid : n.role[q] = IF q = p THEN "Foreground" ELSE alone.role[q]
  BY <1>10, PlaceForeground
<1>12. n.told = alone.told /\ (HostedBut(alone, p) => Hosted(n))
  <2>1. "Foreground" \in Role
    BY DEF Role
  <2>. QED
    BY <1>10, <2>1, ToldFacts, HostedStep
<1> HIDE DEF n
<1>13. Slots(n, p, NoPid, NoPid)
  BY <1>5, <1>7, <1>9, <1>11 DEF Slots
<1>14. Tracked(n) /\ Neat(n)
  BY <1>10, <1>11, <1>13, SlotsQueries DEF Tracked
<1>15. /\ Keeps(n, m) /\ m.editor = n.editor /\ m.told = n.told /\ Neat(m)
       /\ Hosted(n) => Hosted(m)
  BY <1>11, <1>13, <1>14, ReconcileSlots, ReconcileTold DEF Hosted
<1> HIDE DEF m
<1>16. m \in Display /\ Tracked(m)
  BY <1>14, <1>15, KeepsTracked
<1>17. Retold(m, e) /\ (Hosted(m) => Hosted(e))
  BY <1>4, <1>15, <1>16, OnForegroundChangedTold DEF Hosted
<1>18. HostedBut(d, p) => Hosted(e)
  BY <1>3, <1>9, <1>12, <1>15, <1>17
<1>19. Retold(d, e)
  <2>1. Retold(d, alone)
    BY <1>3, <1>9 DEF Retold, Keeps
  <2>2. Retold(d, m) /\ m.ime = d.ime
    BY <1>3, <1>9, <1>11, <1>12, <1>15, <2>1 DEF Retold, Keeps
  <2>. QED
    BY <1>17, <2>2, RetoldTwice
<1>. QED
  BY <1>1, <1>18, <1>19 DEF e

\* The exit of a process signals what else changes; what was told to the process
\* is forgotten with it.
LEMMA RemovedTold ==
    ASSUME NEW d \in Display, Tracked(d), Neat(d), NEW p \in Pid
    PROVE  /\ OnSurfaceRemoved(d, p).told = d.told \ {p}
           /\ Hosted(d) => Hosted(OnSurfaceRemoved(d, p))
<1> DEFINE involved == \/ FirstWithRole(d, "Overlay") = p
                       \/ FirstWithRole(d, "OverlayBehind") = p
           g == IF OverlayEngaged(d) /\ involved THEN DemoteFromOverlay(d) ELSE d
           e == OnSurfaceRemoved(d, p)
<1>1. PICK f, o, b \in Pid \cup {NoPid} : Slots(d, f, o, b)
  BY DEF Neat
<1>2. Keeps(d, g) /\ g.told = d.told /\ (Hosted(d) => Hosted(g))
  BY <1>1, DemoteSlots, DemoteTold DEF Keeps, Hosted
<1>3. e = RemoveSurface(g, p)
  BY DEF OnSurfaceRemoved
<1> HIDE DEF g, e
<1>4. g \in Display
  BY <1>2 DEF Keeps
<1>5. /\ \A q \in Pid : e.role[q] = IF q = p THEN NoSurface ELSE g.role[q]
      /\ \A q \in Pid : q # p => e.host[q] = g.host[q]
      /\ e.told = g.told \ {p}
  BY <1>3, <1>4, RemoveFields
<1>6. Hosted(g) => Hosted(e)
  BY <1>5 DEF Hosted, HostedBut, Surfaces
<1>. QED
  BY <1>2, <1>5, <1>6 DEF e

\* A surface that is put in a role and signalled keeps the others as they were,
\* and no editor loses the focus.
LEMMA FreshTold ==
    ASSUME NEW d \in Display, NEW p \in Pid, NEW r \in Role
    PROVE  LET e == PutSurface(d, p, r)
           IN  /\ e.told = d.told
               /\ Hosted(d) => HostedBut(e, p)
               /\ ApplyRole(e, p, r).told = d.told
               /\ Hosted(d) => Hosted(ApplyRole(e, p, r))
               /\ Hosted(d) /\ r \in {"Chrome", "Headless"} => Hosted(e)
<1> DEFINE e == PutSurface(d, p, r)
           g == ApplyRole(e, p, r)
<1>1. /\ e \in Display /\ Surfaces(e) = Surfaces(d) \cup {p}
      /\ \A q \in Pid : e.role[q] = IF q = p THEN r ELSE d.role[q]
      /\ e.host = d.host /\ e.told = d.told
  BY PutFacts, RestFacts
<1>2. ASSUME Hosted(d), NEW q \in Surfaces(e) \ {p} PROVE e.host[q] = Mechanism(e.role[q], e.host[q])
  BY <1>1, <1>2 DEF Hosted, HostedBut, Surfaces, NoPid, Pid
<1> HIDE DEF e
<1>3. /\ g.role = e.role /\ g.told = e.told
      /\ \A q \in Pid : g.host[q] = IF q = p THEN Mechanism(r, e.host[p]) ELSE e.host[q]
  BY <1>1, ApplyRoleFacts, RestFacts
<1> HIDE DEF g
<1>4. Hosted(d) => HostedBut(e, p)
  BY <1>2 DEF HostedBut
<1>5. Hosted(d) => Hosted(g)
  BY <1>1, <1>2, <1>3, MechanismTwice DEF Hosted, HostedBut, Surfaces
<1>6. Hosted(d) /\ r \in {"Chrome", "Headless"} => Hosted(e)
  <2>1. r \in {"Chrome", "Headless"} => \A old : Mechanism(r, old) = old
    BY DEF Mechanism
  <2>. QED
    BY <1>1, <1>2, <2>1 DEF Hosted, HostedBut
<1>. QED
  BY <1>1, <1>3, <1>4, <1>5, <1>6 DEF e, g
=============================================================================
