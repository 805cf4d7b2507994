----------------------- MODULE OverlayOwnershipProofs -----------------------
(***************************************************************************)
(* Proofs about OverlayOwnership for any set of tasks, any footprints and  *)
(* any bound on the epoch.                                                 *)
(*                                                                         *)
(* Every operation under the lock does one of four things to the fields    *)
(* that account for the screen: it stages a render, it stages a cleanup,   *)
(* it emits nothing, or it repaints what is already owned.  The first part *)
(* proves this operation by operation; the second proves, once for each of *)
(* the four, that staging preserves the inductive invariant Ledger.        *)
(***************************************************************************)
EXTENDS OverlayOwnership, TLAPS

\* The fields that account for the screen.
SameAccounts(g, h) ==
  /\ g.layout = h.layout /\ g.detail = h.detail /\ g.epoch = h.epoch
  /\ g.renderGen = h.renderGen /\ g.pendingRender = h.pendingRender
  /\ g.cleanupGen = h.cleanupGen /\ g.pendingCleanup = h.pendingCleanup

StagesRender(h, out) ==
  /\ out.h.layout = h.layout /\ out.h.detail = h.detail
  /\ out.h.epoch = h.epoch + 1
  /\ out.h.renderGen = h.renderGen + 1 /\ out.h.cleanupGen = h.cleanupGen
  /\ out.h.pendingCleanup = None
  /\ out.h.pendingRender # None
  /\ out.h.pendingRender.token = h.renderGen + 1
  /\ out.left = {} => out.erase = Owned(h)
  /\ out.paint = CellsOf(out.h.pendingRender.layout)
                   \cup CellsOf(out.h.pendingRender.detail)

StagesCleanup(h, out) ==
  /\ out.h.layout = h.layout /\ out.h.detail = h.detail
  /\ out.h.epoch = h.epoch + 1
  /\ out.h.renderGen = h.renderGen /\ out.h.cleanupGen = h.cleanupGen + 1
  /\ out.h.pendingRender = None
  /\ out.h.pendingCleanup # None
  /\ out.h.pendingCleanup.token = h.cleanupGen + 1
  /\ out.paint = {}
  /\ CellsOf(h.detail) \subseteq out.erase
  /\ out.h.pendingCleanup.scope = "MainAndDetail" => out.erase = Owned(h)

EmitsNothing(h, out) ==
  /\ out.erase = {} /\ out.paint = {}
  /\ out.h.layout = h.layout /\ out.h.detail = h.detail
  /\ out.h.epoch = h.epoch
  /\ out.h.renderGen = h.renderGen /\ out.h.cleanupGen = h.cleanupGen
  /\ \/ out.h.pendingRender = h.pendingRender /\ out.h.pendingCleanup = h.pendingCleanup
     \/ out.h.pendingRender = None /\ out.h.pendingCleanup = None
  /\ out.h.visible => h.visible

\* Bytes without a commit of their own: a frame of the spinner, or the row an
\* expired error gives up.
Repaints(h, out) ==
  /\ h.layout # None /\ out.h.layout # None
  /\ out.h.detail = h.detail
  /\ out.h.epoch = h.epoch + 1
  /\ out.h.renderGen = h.renderGen /\ out.h.cleanupGen = h.cleanupGen
  /\ out.h.pendingRender = h.pendingRender /\ out.h.pendingCleanup = h.pendingCleanup
  /\ \/ /\ out.erase = {} /\ out.paint = CellsOf(h.layout)
        /\ out.h.layout = h.layout
     \/ /\ out.paint = {}
        /\ out.h.layout = CellsOf(h.layout) \ out.erase

Outs == [h: Handlers, erase: SUBSET Cells, paint: SUBSET Cells, left: SUBSET Cells]

Accountable(h, out) ==
  /\ out \in Outs
  /\ \/ StagesRender(h, out) \/ StagesCleanup(h, out)
     \/ EmitsNothing(h, out) \/ Repaints(h, out)

-----------------------------------------------------------------------------
(* The operations.                                                         *)

\* A handler that differs from h in what it shows, and not in its accounts.
Kin(h)    == {g \in Handlers : SameAccounts(g, h)}
\* ... nor does it show a popup that h did not.
Meeker(h) == {g \in Kin(h) : g.visible => h.visible}

\* None is no set of cells, so an absent layout differs from an empty one.
LEMMA OwnedCells ==
  ASSUME NEW h \in Handlers
  PROVE  /\ Owned(h) \in SUBSET Cells
         /\ CellsOf(h.layout) \in SUBSET Cells /\ CellsOf(h.detail) \in SUBSET Cells
  BY DEF Owned, CellsOf, Handlers, Option

\* The accounts of a handler may be replaced one and all.
LEMMA AccountsType ==
  ASSUME NEW h \in Handlers, NEW e \in Nat, NEW r \in Nat, NEW c \in Nat,
         NEW pr \in Option(PendingRenders), NEW pc \in Option(PendingCleanups)
  PROVE  /\ [h EXCEPT !.epoch = e, !.renderGen = r,
                      !.pendingCleanup = pc, !.pendingRender = pr] \in Handlers
         /\ [h EXCEPT !.cleanupGen = c,
                      !.pendingRender = pr, !.pendingCleanup = pc] \in Handlers
         /\ [h EXCEPT !.pendingCleanup = pc, !.pendingRender = pr] \in Handlers
         /\ [h EXCEPT !.epoch = e] \in Handlers
  BY DEF Handlers

\* render_at stages a render over the cells owned before it, or over what has scrolled.
LEMMA RenderAtStages ==
  ASSUME NEW h \in Handlers, NEW g \in Kin(h),
         NEW layout \in SUBSET Cells, NEW detail \in Option(SUBSET Cells),
         NEW left \in SUBSET Cells
  PROVE  /\ RenderAt(g, layout, detail, left) \in Outs
         /\ StagesRender(h, RenderAt(g, layout, detail, left))
<1> DEFINE p == [token |-> g.renderGen + 1, layout |-> layout, detail |-> detail]
           k == [g EXCEPT !.epoch = @ + 1, !.renderGen = @ + 1,
                          !.pendingCleanup = None, !.pendingRender = p]
           out == [h |-> k, erase |-> Owned(g) \ left, paint |-> layout \cup CellsOf(detail),
                   left |-> left]
<1>1. g \in Handlers /\ SameAccounts(g, h)
  BY DEF Kin
<1>2. p \in PendingRenders /\ p # None
  BY <1>1, NoneAssumption DEF PendingRenders, Handlers
<1>3. RenderAt(g, layout, detail, left) = out
  BY <1>1 DEF RenderAt, Staging, Bump, Handlers
<1>4. k \in Handlers
  <2>1. g.epoch + 1 \in Nat /\ g.renderGen + 1 \in Nat
    BY <1>1 DEF Handlers
  <2>2. None \in Option(PendingCleanups) /\ p \in Option(PendingRenders)
    BY <1>2 DEF Option
  <2> HIDE DEF p
  <2> QED
    BY <1>1, <2>1, <2>2, AccountsType
<1>5. /\ k.layout = g.layout /\ k.detail = g.detail
      /\ k.epoch = g.epoch + 1 /\ k.renderGen = g.renderGen + 1
      /\ k.cleanupGen = g.cleanupGen
      /\ k.pendingCleanup = None /\ k.pendingRender = p
  BY <1>1 DEF Handlers
<1>6. CellsOf(layout) = layout /\ CellsOf(detail) \in SUBSET Cells
  BY NoneAssumption DEF CellsOf, Option
<1>7. Owned(g) = Owned(h) /\ Owned(g) \in SUBSET Cells
  BY <1>1, OwnedCells DEF Owned, SameAccounts
<1>8. out \in Outs
  <2> HIDE DEF k
  <2> QED
    BY <1>4, <1>6, <1>7 DEF Outs
<1>9. StagesRender(h, out)
  <2>1. p.token = g.renderGen + 1 /\ p.layout = layout /\ p.detail = detail
    OBVIOUS
  <2>2. left = {} => out.erase = Owned(h)
    BY <1>7
  <2> HIDE DEF k, p
  <2> QED
    BY <1>1, <1>2, <1>5, <1>6, <2>1, <2>2 DEF StagesRender, SameAccounts
<1> QED
  BY <1>3, <1>8, <1>9

\* Whatever the handler has to show, a render is a render.
LEMMA RendersStage ==
  ASSUME NEW h \in Handlers, NEW g \in Kin(h), NEW out \in Renders(g)
  PROVE  Accountable(h, out)
<1>1. PICK l \in Layouts(g) : \E d \in DetailLayouts(g, l) : out \in RendersAt(g, l, d)
  BY DEF Renders
<1>2. PICK d \in DetailLayouts(g, l) : out \in RendersAt(g, l, d)
  BY <1>1
<1>3. l \in SUBSET Cells
  BY DEF Layouts, PopupCells, Cells
<1>4. d \in Option(SUBSET Cells)
  BY <1>3 DEF DetailLayouts, Option, Cells
<1>5. PICK left \in Uncleared(g, l \cup CellsOf(d)) : out = RenderAt(g, l, d, left)
  BY <1>2 DEF RendersAt
<1>6. left \in SUBSET Cells
  BY OwnedCells DEF Uncleared, Kin
<1> QED
  BY <1>3, <1>4, <1>5, <1>6, RenderAtStages DEF Accountable

\* Showing, loading, idling and hiding leave the accounts alone.
LEMMA Contents ==
  ASSUME NEW h \in Handlers, NEW f \in Feedbacks, NEW r \in BOOLEAN,
         NEW a \in BOOLEAN, NEW m \in BOOLEAN
  PROVE  /\ Shown(h) \in Kin(h)
         /\ Loading(h) \in Meeker(h)
         /\ Idle(h) \in Meeker(h)
         /\ Hidden(h) \in Meeker(h) /\ ~Hidden(h).visible
         /\ [h EXCEPT !.feedback = f] \in Meeker(h)
         /\ [h EXCEPT !.rx = r] \in Meeker(h)
         /\ [h EXCEPT !.feedback = f, !.rx = r] \in Meeker(h)
         /\ ShownEmpty(h) \in Kin(h)
         /\ [h EXCEPT !.auto = a, !.detailMode = m] \in Meeker(h)
<1>1. "Idle" \in Feedbacks /\ "Loading" \in Feedbacks
  BY DEF Feedbacks
<1> QED
  BY <1>1 DEF Kin, Meeker, SameAccounts, Handlers, Shown, ShownEmpty, Loading, Idle, Hidden

\* Hiding keeps a cleanup pending.
LEMMA HiddenKeepsCleanup ==
  ASSUME NEW h \in Handlers
  PROVE  Hidden(h).pendingCleanup = h.pendingCleanup
  BY DEF Hidden, Handlers

\* Kin of kin are kin.
LEMMA KinOfKin ==
  ASSUME NEW h \in Handlers, NEW g \in Kin(h)
  PROVE  /\ g \in Handlers
         /\ Kin(g) = Kin(h)
         /\ g \in Meeker(h) => Meeker(g) \subseteq Meeker(h)
         /\ h \in Meeker(h)
  BY DEF Kin, Meeker, SameAccounts

\* Bytes account for the same cells whichever kin emits them.
LEMMA AccountableKin ==
  ASSUME NEW h \in Handlers, NEW g \in Meeker(h), NEW out, Accountable(g, out)
  PROVE  Accountable(h, out)
<1>1. SameAccounts(g, h) /\ (g.visible => h.visible)
  BY DEF Meeker, Kin
<1>2. Owned(g) = Owned(h)
  BY <1>1 DEF Owned, SameAccounts
<1>3. CASE StagesRender(g, out)
  BY <1>1, <1>2, <1>3 DEF Accountable, StagesRender, SameAccounts
<1>4. CASE StagesCleanup(g, out)
  BY <1>1, <1>2, <1>4 DEF Accountable, StagesCleanup, SameAccounts
<1>5. CASE EmitsNothing(g, out)
  BY <1>1, <1>5 DEF Accountable, EmitsNothing, SameAccounts
<1>6. CASE Repaints(g, out)
  BY <1>1, <1>6 DEF Accountable, Repaints, SameAccounts
<1> QED
  BY <1>3, <1>4, <1>5, <1>6 DEF Accountable

\* Doing nothing.
LEMMA QuietEmits ==
  ASSUME NEW h \in Handlers, NEW g \in Meeker(h)
  PROVE  Accountable(h, Quiet(g))
<1>1. g \in Handlers /\ SameAccounts(g, h) /\ (g.visible => h.visible)
  BY DEF Meeker, Kin
<1> QED
  BY <1>1 DEF Accountable, EmitsNothing, Quiet, Out, Outs, SameAccounts

\* stage_overlay_cleanup after a new epoch, then hiding or not.
LEMMA CleanupStages ==
  ASSUME NEW h \in Handlers, NEW scope \in {"MainAndDetail", "DetailOnly"}
  PROVE  LET k == StageOverlayCleanup(Bump(h), scope) IN
         /\ k \in Handlers
         /\ k.visible = h.visible
         /\ k.layout = h.layout /\ k.detail = h.detail
         /\ k.epoch = h.epoch + 1 /\ k.renderGen = h.renderGen
         /\ k.cleanupGen = h.cleanupGen + 1
         /\ k.pendingRender = None
         /\ k.pendingCleanup # None
         /\ k.pendingCleanup.token = h.cleanupGen + 1
         /\ k.pendingCleanup.scope = scope
<1> DEFINE p == [token |-> h.cleanupGen + 1, scope |-> scope]
           b == [h EXCEPT !.epoch = @ + 1]
           k == [b EXCEPT !.cleanupGen = @ + 1, !.pendingRender = None, !.pendingCleanup = p]
<1>1. p \in PendingCleanups /\ p # None
  BY NoneAssumption DEF PendingCleanups, Handlers
<1>2. h.epoch + 1 \in Nat /\ h.cleanupGen + 1 \in Nat
  BY DEF Handlers
<1>3. b \in Handlers
  BY <1>2, AccountsType, NoneAssumption DEF Option
<1>4. /\ b.layout = h.layout /\ b.detail = h.detail /\ b.visible = h.visible
      /\ b.epoch = h.epoch + 1 /\ b.renderGen = h.renderGen
      /\ b.cleanupGen = h.cleanupGen
  BY DEF Handlers
<1>5. StageOverlayCleanup(Bump(h), scope) = k
  BY <1>4 DEF StageOverlayCleanup, Bump
<1> HIDE DEF b
<1>6. k \in Handlers
  <2>1. None \in Option(PendingRenders) /\ p \in Option(PendingCleanups)
    BY <1>1 DEF Option
  <2> HIDE DEF p
  <2> QED
    BY <1>2, <1>3, <1>4, <2>1, AccountsType
<1>7. /\ k.layout = b.layout /\ k.detail = b.detail /\ k.visible = b.visible
      /\ k.epoch = b.epoch /\ k.renderGen = b.renderGen
      /\ k.cleanupGen = b.cleanupGen + 1
      /\ k.pendingRender = None /\ k.pendingCleanup = p
  BY <1>3 DEF Handlers
<1>8. p.token = h.cleanupGen + 1 /\ p.scope = scope
  OBVIOUS
<1> HIDE DEF k, p
<1> QED
  BY <1>1, <1>4, <1>5, <1>6, <1>7, <1>8

\* teardown_popup stages the cleanup of all that is owned, or owns nothing.
LEMMA TeardownStages ==
  ASSUME NEW h \in Handlers
  PROVE  /\ TeardownPopup(h) \in Outs
         /\ ~TeardownPopup(h).h.visible
         /\ IF h.layout # None \/ h.detail # None
            THEN StagesCleanup(h, TeardownPopup(h))
            ELSE /\ EmitsNothing(h, TeardownPopup(h))
                 /\ TeardownPopup(h).h.pendingRender = None
                 /\ TeardownPopup(h).h.pendingCleanup = None
<1>1. CASE h.layout # None \/ h.detail # None
  <2> DEFINE k == StageOverlayCleanup(Bump(h), "MainAndDetail")
  <2>1. /\ k \in Handlers
        /\ k.layout = h.layout /\ k.detail = h.detail
        /\ k.epoch = h.epoch + 1 /\ k.renderGen = h.renderGen
        /\ k.cleanupGen = h.cleanupGen + 1
        /\ k.pendingRender = None
        /\ k.pendingCleanup # None
        /\ k.pendingCleanup.token = h.cleanupGen + 1
        /\ k.pendingCleanup.scope = "MainAndDetail"
    BY CleanupStages
  <2>2. TeardownPopup(h) = Out(Hidden(k), Owned(h), {})
    BY <1>1 DEF TeardownPopup
  <2> HIDE DEF k
  <2>3. Hidden(k) \in Handlers /\ SameAccounts(Hidden(k), k) /\ ~Hidden(k).visible
    BY <2>1, Contents DEF Meeker, Kin, Feedbacks
  <2>4. Owned(h) \in SUBSET Cells /\ CellsOf(h.detail) \subseteq Owned(h)
    BY OwnedCells DEF Owned
  <2> HIDE DEF Hidden
  <2> QED
    BY <1>1, <2>1, <2>2, <2>3, <2>4 DEF StagesCleanup, SameAccounts, Out, Outs
<1>2. CASE ~(h.layout # None \/ h.detail # None)
  <2> DEFINE k == [h EXCEPT !.pendingCleanup = None, !.pendingRender = None]
  <2>1. k \in Handlers
    BY AccountsType DEF Option
  <2>2. /\ k.layout = h.layout /\ k.detail = h.detail
        /\ k.epoch = h.epoch /\ k.renderGen = h.renderGen
        /\ k.cleanupGen = h.cleanupGen
        /\ k.pendingRender = None /\ k.pendingCleanup = None
    BY DEF Handlers
  <2>3. TeardownPopup(h) = Quiet(Hidden(k))
    BY <1>2 DEF TeardownPopup
  <2> HIDE DEF k
  <2>4. Hidden(k) \in Handlers /\ SameAccounts(Hidden(k), k) /\ ~Hidden(k).visible
    BY <2>1, Contents DEF Meeker, Kin, Feedbacks
  <2> QED
    BY <1>2, <2>1, <2>2, <2>3, <2>4
    DEF EmitsNothing, SameAccounts, Quiet, Out, Outs
<1> QED
  BY <1>1, <1>2

\* Any teardown is accountable.
LEMMA TeardownAccountable ==
  ASSUME NEW h \in Handlers
  PROVE  Accountable(h, TeardownPopup(h))
  BY TeardownStages DEF Accountable

\* What is shown may change afterwards without touching the accounts.
LEMMA AfterwardsMeeker ==
  ASSUME NEW h \in Handlers, NEW out, Accountable(h, out), NEW g \in Meeker(out.h)
  PROVE  Accountable(h, [out EXCEPT !.h = g])
<1> DEFINE o == [out EXCEPT !.h = g]
<1>1. out \in Outs
  BY DEF Accountable
<1>2. g \in Handlers /\ SameAccounts(g, out.h) /\ (g.visible => out.h.visible)
  BY DEF Meeker, Kin
<1>3. o \in Outs /\ o.h = g /\ o.erase = out.erase /\ o.paint = out.paint /\ o.left = out.left
  BY <1>1, <1>2 DEF Outs
<1> HIDE DEF o
<1>4. Accountable(h, o)
  <2>1. CASE StagesRender(h, out)
    BY <1>2, <1>3, <2>1 DEF Accountable, StagesRender, SameAccounts
  <2>2. CASE StagesCleanup(h, out)
    BY <1>2, <1>3, <2>2 DEF Accountable, StagesCleanup, SameAccounts
  <2>3. CASE EmitsNothing(h, out)
    BY <1>2, <1>3, <2>3 DEF Accountable, EmitsNothing, SameAccounts
  <2>4. CASE Repaints(h, out)
    BY <1>2, <1>3, <2>4 DEF Accountable, Repaints, SameAccounts
  <2> QED
    BY <2>1, <2>2, <2>3, <2>4 DEF Accountable
<1> QED
  BY <1>4 DEF o

\* dismiss, behind its callers' test of visible.
LEMMA DismissAccountable ==
  ASSUME NEW h \in Handlers
  PROVE  Accountable(h, DismissIfVisible(h))
<1>1. Accountable(h, TeardownPopup(h))
  BY TeardownAccountable
<1>2. Accountable(h, Quiet(h))
  BY KinOfKin, QuietEmits DEF Kin, SameAccounts
<1> QED
  BY <1>1, <1>2 DEF DismissIfVisible

\* trigger with generators: whatever it shows, its bytes are accounted for.
LEMMA SpawnedAccountable ==
  ASSUME NEW h \in Handlers, NEW out \in Spawned(h)
  PROVE  Accountable(h, out)
<1> DEFINE d == DismissIfVisible(Idle(h))
<1>1. CASE out \in Renders(Shown(Loading(h)))
  <2>1. Loading(h) \in Handlers /\ Loading(h) \in Kin(h)
    BY Contents DEF Meeker, Kin, Feedbacks
  <2>2. Shown(Loading(h)) \in Kin(Loading(h))
    BY <2>1, Contents DEF Feedbacks
  <2>3. Shown(Loading(h)) \in Kin(h)
    BY <2>1, <2>2, KinOfKin
  <2> QED
    BY <1>1, <2>3, RendersStage
<1>2. CASE out = [d EXCEPT !.h = Loading(@)]
  <2>1. Idle(h) \in Handlers /\ Idle(h) \in Meeker(h)
    BY Contents DEF Meeker, Kin, Feedbacks
  <2>2. Accountable(h, d)
    BY <2>1, DismissAccountable, AccountableKin
  <2>3. d.h \in Handlers
    BY <2>2 DEF Accountable, Outs
  <2>4. Loading(d.h) \in Meeker(d.h)
    BY <2>3, Contents DEF Feedbacks
  <2> HIDE DEF d
  <2> QED
    BY <1>2, <2>2, <2>4, AfterwardsMeeker
<1> QED
  BY <1>1, <1>2 DEF Spawned

\* trigger, whatever it finds.
LEMMA TriggersAccountable ==
  ASSUME NEW h \in Handlers, NEW out \in Triggers(h)
  PROVE  Accountable(h, out)
<1>1. Idle(h) \in Handlers /\ Idle(h) \in Meeker(h) /\ Idle(h) \in Kin(h)
  BY Contents DEF Meeker, Kin, Feedbacks
<1>2. Accountable(h, Quiet(h))
  BY KinOfKin, QuietEmits DEF Kin, SameAccounts
<1>3. Accountable(h, DismissIfVisible(h))
  BY DismissAccountable
<1>4. Accountable(h, DismissIfVisible(Idle(h)))
  BY <1>1, DismissAccountable, AccountableKin
<1>5. Shown(Idle(h)) \in Kin(h)
  <2>1. Shown(Idle(h)) \in Kin(Idle(h))
    BY <1>1, Contents DEF Feedbacks
  <2> QED
    BY <1>1, <2>1, KinOfKin
<1> QED
  BY <1>2, <1>3, <1>4, <1>5, RendersStage, SpawnedAccountable DEF Triggers

\* Every generator is done, with whatever feedback is left to show.
LEMMA FinishedMeeker ==
  ASSUME NEW h \in Handlers, NEW fs \in SUBSET Feedbacks, NEW g \in Finished(h, fs)
  PROVE  g \in Meeker(h) /\ g \in Handlers /\ g \in Kin(h)
<1>1. PICK f \in fs : g = [h EXCEPT !.feedback = f, !.rx = FALSE]
  BY DEF Finished
<1>2. g \in Meeker(h)
  BY <1>1, Contents
<1> QED
  BY <1>2 DEF Meeker, Kin

\* Results of an earlier command.
LEMMA StaleMergeAccountable ==
  ASSUME NEW h \in Handlers, NEW out \in StaleMerge(h)
  PROVE  Accountable(h, out)
<1>1. Idle(h) \in Meeker(h) /\ Idle(h) \in Kin(h)
  BY Contents DEF Meeker, Feedbacks
<1> QED
  BY <1>1, RendersStage, QuietEmits DEF StaleMerge

\* A render of any kin of the handler.
LEMMA RenderAnyAccountable ==
  ASSUME NEW h \in Handlers, NEW S \in SUBSET Kin(h), NEW out \in RenderAny(S)
  PROVE  Accountable(h, out)
<1>1. PICK g \in S : out \in Renders(g)
  BY DEF RenderAny
<1> QED
  BY <1>1, RendersStage

\* try_merge_dynamic, whatever the generators sent.
LEMMA MergesAccountable ==
  ASSUME NEW h \in Handlers, NEW out \in Merges(h)
  PROVE  Accountable(h, out)
<1> DEFINE kept == {h} \cup Finished(h, {"Idle", "Partial"})
           done == Finished(h, IF h.suggested THEN {"Idle", "Partial"} ELSE {"Idle", "Terminal"})
<1>1. h \in Meeker(h) /\ h \in Kin(h)
  BY KinOfKin DEF Kin, SameAccounts
<1>2. ASSUME NEW g \in kept
      PROVE  g \in Meeker(h) /\ g \in Handlers /\ g \in Kin(h)
  BY <1>1, FinishedMeeker DEF Feedbacks
<1>3. ASSUME NEW g \in {h} \cup done
      PROVE  g \in Meeker(h) /\ g \in Kin(h)
  <2>1. {"Idle", "Partial"} \in SUBSET Feedbacks /\ {"Idle", "Terminal"} \in SUBSET Feedbacks
    BY DEF Feedbacks
  <2> QED
    BY <1>1, <2>1, FinishedMeeker
<1>4. out \in RenderAny({Shown(g) : g \in kept}) \/ out \in {TeardownPopup(g) : g \in kept}
      \/ out \in StaleMerge(h) \/ out \in RenderAny({h} \cup done)
      \/ out \in {Quiet(g) : g \in {k \in done : ~k.visible}}
  BY Zenon DEF Merges
<1> HIDE DEF kept, done
<1>5. ASSUME NEW g \in kept
      PROVE  Shown(g) \in Kin(h) /\ Accountable(h, TeardownPopup(g))
  <2>1. g \in Meeker(h) /\ g \in Handlers /\ g \in Kin(h)
    BY <1>2
  <2>2. Shown(g) \in Kin(g)
    BY <2>1, Contents DEF Feedbacks
  <2> QED
    BY <2>1, <2>2, KinOfKin, TeardownAccountable, AccountableKin
<1>6. {Shown(g) : g \in kept} \in SUBSET Kin(h) /\ {h} \cup done \in SUBSET Kin(h)
  BY <1>3, <1>5
<1>7. out \in {Quiet(g) : g \in {k \in done : ~k.visible}} => Accountable(h, out)
  BY <1>3, QuietEmits
<1> QED
  BY <1>4, <1>5, <1>6, <1>7, RenderAnyAccountable, StaleMergeAccountable

\* apply_block_result, whatever arrived in the window.
LEMMA BlockResultsAccountable ==
  ASSUME NEW h \in Handlers, NEW out \in BlockResults(h)
  PROVE  Accountable(h, out)
<1> DEFINE running == [h EXCEPT !.rx = TRUE]
           kept == {running} \cup Finished(h, {"Idle", "Partial"})
           left == {running} \cup Finished(h, {"Idle", "Partial", "Terminal"})
           seen == {g \in left : g.visible \/ g.feedback # "Idle"}
<1>1. ASSUME NEW g \in left
      PROVE  g \in Meeker(h) /\ g \in Handlers /\ g \in Kin(h)
  <2>1. running \in Meeker(h)
    BY Contents DEF Feedbacks
  <2>2. {"Idle", "Partial", "Terminal"} \in SUBSET Feedbacks
    BY DEF Feedbacks
  <2> QED
    BY <2>1, <2>2, FinishedMeeker DEF Meeker, Kin
<1>2. kept \subseteq left /\ running \in left
  BY DEF Finished
<1>3. out \in RenderAny({Shown(g) : g \in kept}) \/ out \in RenderAny({ShownEmpty(g) : g \in kept})
      \/ out \in StaleMerge(h) \/ out \in RenderAny(seen)
      \/ out \in {Quiet(g) : g \in left \ seen} \/ out = Quiet(running)
  BY Zenon DEF BlockResults
<1>4. seen \in SUBSET left
  OBVIOUS
<1> HIDE DEF running, kept, left, seen
<1>5. ASSUME NEW g \in kept
      PROVE  Shown(g) \in Kin(h) /\ ShownEmpty(g) \in Kin(h)
  <2>1. g \in Meeker(h) /\ g \in Handlers /\ g \in Kin(h)
    BY <1>1, <1>2
  <2>2. Shown(g) \in Kin(g) /\ ShownEmpty(g) \in Kin(g)
    BY <2>1, Contents DEF Feedbacks
  <2> QED
    BY <2>1, <2>2, KinOfKin
<1>6. /\ {Shown(g) : g \in kept} \in SUBSET Kin(h)
      /\ {ShownEmpty(g) : g \in kept} \in SUBSET Kin(h)
      /\ seen \in SUBSET Kin(h)
  BY <1>1, <1>4, <1>5
<1>7. out \in {Quiet(g) : g \in left \ seen} \/ out = Quiet(running) => Accountable(h, out)
  BY <1>1, <1>2, QuietEmits
<1> QED
  BY <1>3, <1>6, <1>7, RenderAnyAccountable, StaleMergeAccountable

\* The layouts of a handler may be replaced too.
LEMMA LayoutsType ==
  ASSUME NEW h \in Handlers, NEW e \in Nat,
         NEW l \in Option(SUBSET Cells), NEW d \in Option(SUBSET Cells),
         NEW pr \in Option(PendingRenders), NEW pc \in Option(PendingCleanups)
  PROVE  /\ [h EXCEPT !.epoch = e, !.layout = l] \in Handlers
         /\ [h EXCEPT !.pendingRender = pr, !.layout = l, !.detail = d] \in Handlers
         /\ [h EXCEPT !.pendingCleanup = pc, !.layout = l, !.detail = d] \in Handlers
  BY DEF Handlers

\* A frame of the spinner repaints the popup last written.
LEMMA IndicatorAccountable ==
  ASSUME NEW h \in Handlers, h.layout # None
  PROVE  Accountable(h, RenderIndicatorOnly(h))
<1> DEFINE k == [h EXCEPT !.epoch = @ + 1]
<1>1. k \in Handlers
  <2>1. h.epoch + 1 \in Nat
    BY DEF Handlers
  <2> QED
    BY <2>1, AccountsType, NoneAssumption DEF Option
<1>2. /\ k.layout = h.layout /\ k.detail = h.detail /\ k.epoch = h.epoch + 1
      /\ k.renderGen = h.renderGen /\ k.pendingRender = h.pendingRender
      /\ k.cleanupGen = h.cleanupGen /\ k.pendingCleanup = h.pendingCleanup
  BY DEF Handlers
<1>3. RenderIndicatorOnly(h) = Out(k, {}, CellsOf(h.layout))
  BY DEF RenderIndicatorOnly, Bump
<1>4. CellsOf(h.layout) \in SUBSET Cells
  BY OwnedCells
<1> HIDE DEF k
<1> QED
  BY <1>1, <1>2, <1>3, <1>4 DEF Accountable, Repaints, Out, Outs

\* An expired feedback gives up its row, or the popup is taken down.
LEMMA ClearExpiredAccountable ==
  ASSUME NEW h \in Handlers
  PROVE  Accountable(h, ClearExpiredFeedback(h))
<1> DEFINE idle == [h EXCEPT !.feedback = "Idle"]
           row  == {<<c[1], "row">> : c \in CellsOf(h.layout)}
<1>1. idle \in Meeker(h) /\ idle \in Handlers /\ SameAccounts(idle, h)
  BY Contents DEF Feedbacks, Meeker, Kin
<1>2. CASE h.feedback = "Partial" /\ h.suggested /\ CellsOf(h.layout) = {}
  BY <1>1, <1>2, QuietEmits DEF ClearExpiredFeedback
<1>3. CASE h.feedback = "Partial" /\ h.suggested /\ CellsOf(h.layout) # {}
  <2> DEFINE k == [idle EXCEPT !.epoch = idle.epoch + 1, !.layout = idle.layout \ row]
  <2>1. h.layout \in SUBSET Cells /\ h.layout # None /\ CellsOf(h.layout) = h.layout
    BY <1>3 DEF CellsOf, Handlers, Option
  <2>2. row \in SUBSET Cells /\ CellsOf(h.layout) \in SUBSET Cells
    BY OwnedCells DEF Cells
  <2> HIDE DEF idle, row
  <2>3. ClearExpiredFeedback(h) = Out(k, row, {})
    <3>1. ClearExpiredFeedback(h) = Out([Bump(idle) EXCEPT !.layout = @ \ row], row, {})
      BY <1>3 DEF ClearExpiredFeedback, idle, row
    <3>2. [Bump(idle) EXCEPT !.layout = @ \ row] = k
      BY <1>1 DEF Bump, Handlers
    <3> QED
      BY <3>1, <3>2
  <2>4. k \in Handlers
    <3>1. idle.epoch + 1 \in Nat /\ idle.layout \ row \in Option(SUBSET Cells)
      BY <1>1, <2>1 DEF Handlers, Option, SameAccounts
    <3> QED
      BY <1>1, <3>1, LayoutsType DEF Option
  <2>5. /\ k.layout = h.layout \ row /\ k.detail = h.detail /\ k.epoch = h.epoch + 1
        /\ k.renderGen = h.renderGen /\ k.pendingRender = h.pendingRender
        /\ k.cleanupGen = h.cleanupGen /\ k.pendingCleanup = h.pendingCleanup
    BY <1>1 DEF Handlers, SameAccounts
  <2>6. h.layout \ row # None
    BY <2>1, NoneAssumption
  <2> HIDE DEF k
  <2> QED
    BY <2>1, <2>2, <2>3, <2>4, <2>5, <2>6 DEF Accountable, Repaints, Out, Outs
<1>4. CASE ~(h.feedback = "Partial" /\ h.suggested)
  <2>1. Accountable(h, TeardownPopup(idle))
    BY <1>1, TeardownAccountable, AccountableKin
  <2> QED
    BY <1>4, <2>1 DEF ClearExpiredFeedback
<1> QED
  BY <1>2, <1>3, <1>4

\* update_config stages the cleanup of what it switches off.
LEMMA UpdateConfigAccountable ==
  ASSUME NEW h \in Handlers, NEW auto \in BOOLEAN, NEW mode \in BOOLEAN
  PROVE  Accountable(h, UpdateConfig(h, auto, mode))
<1> DEFINE stops == h.auto /\ ~auto
           main  == stops /\ h.visible /\ (h.layout # None \/ h.detail # None)
           box   == h.detailMode /\ ~mode /\ h.detail # None /\ ~main
           g     == IF main THEN StageOverlayCleanup(Bump(h), "MainAndDetail")
                    ELSE IF box THEN StageOverlayCleanup(Bump(h), "DetailOnly")
                    ELSE h
           k     == [(IF stops THEN Hidden(g) ELSE g) EXCEPT
                       !.auto = auto, !.detailMode = mode]
           erase == IF main THEN Owned(h) ELSE IF box THEN CellsOf(h.detail) ELSE {}
<1>1. UpdateConfig(h, auto, mode) = Out(k, erase, {})
  BY Zenon DEF UpdateConfig
<1>2. g \in Handlers
  BY CleanupStages
<1>3. ASSUME NEW x \in Handlers
      PROVE  [(IF stops THEN Hidden(x) ELSE x) EXCEPT !.auto = auto, !.detailMode = mode]
               \in Meeker(x)
  <2> DEFINE y == IF stops THEN Hidden(x) ELSE x
  <2>1. y \in Meeker(x) /\ y \in Kin(x) /\ y \in Handlers
    BY Contents, KinOfKin DEF Feedbacks, Meeker, Kin
  <2>2. [y EXCEPT !.auto = auto, !.detailMode = mode] \in Meeker(y)
    BY <2>1, Contents DEF Feedbacks
  <2> QED
    BY <2>1, <2>2, KinOfKin
<1>4. k \in Handlers /\ SameAccounts(k, g) /\ (k.visible => g.visible)
  BY <1>2, <1>3 DEF Meeker, Kin
<1>5. erase \in SUBSET Cells /\ CellsOf(h.detail) \subseteq Owned(h)
  BY OwnedCells DEF Owned
<1> HIDE DEF k
<1>6. CASE main
  <2>1. /\ g.layout = h.layout /\ g.detail = h.detail
        /\ g.epoch = h.epoch + 1 /\ g.renderGen = h.renderGen
        /\ g.cleanupGen = h.cleanupGen + 1
        /\ g.pendingRender = None
        /\ g.pendingCleanup # None
        /\ g.pendingCleanup.token = h.cleanupGen + 1
    BY <1>6, CleanupStages
  <2>2. erase = Owned(h)
    BY <1>6
  <2> HIDE DEF g, erase
  <2> QED
    BY <1>1, <1>4, <1>5, <2>1, <2>2 DEF Accountable, StagesCleanup, SameAccounts, Out, Outs
<1>7. CASE box
  <2>1. /\ g.layout = h.layout /\ g.detail = h.detail
        /\ g.epoch = h.epoch + 1 /\ g.renderGen = h.renderGen
        /\ g.cleanupGen = h.cleanupGen + 1
        /\ g.pendingRender = None
        /\ g.pendingCleanup # None
        /\ g.pendingCleanup.token = h.cleanupGen + 1
        /\ g.pendingCleanup.scope = "DetailOnly"
    BY <1>7, CleanupStages
  <2>2. erase = CellsOf(h.detail)
    BY <1>7
  <2> HIDE DEF g, erase
  <2> QED
    BY <1>1, <1>4, <1>5, <2>1, <2>2 DEF Accountable, StagesCleanup, SameAccounts, Out, Outs
<1>8. CASE ~main /\ ~box
  <2>1. g = h /\ erase = {}
    BY <1>8
  <2> HIDE DEF g, erase
  <2> QED
    BY <1>1, <1>4, <2>1 DEF Accountable, EmitsNothing, SameAccounts, Out, Outs
<1> QED
  BY <1>6, <1>7, <1>8

\* A write acknowledges the pending commit whose token it carries, no other.
LEMMA CommitCases ==
  ASSUME NEW h \in Handlers, NEW ticket \in [epoch: Nat, render: Nat, cleanup: Nat],
         h.pendingRender = None \/ h.pendingCleanup = None
  PROVE  LET k == CommitOverlayWrite(h, ticket) IN
         /\ k \in Handlers
         /\ k.visible = h.visible /\ k.epoch = h.epoch
         /\ k.renderGen = h.renderGen /\ k.cleanupGen = h.cleanupGen
         /\ Holds(h.pendingRender, ticket.render) =>
              /\ k.pendingRender = None /\ k.pendingCleanup = None
              /\ k.layout = h.pendingRender.layout /\ k.detail = h.pendingRender.detail
         /\ Holds(h.pendingCleanup, ticket.cleanup) =>
              /\ k.pendingRender = None /\ k.pendingCleanup = None
              /\ k.layout = IF h.pendingCleanup.scope = "MainAndDetail"
                            THEN None ELSE h.layout
              /\ k.detail = None
         /\ ~Holds(h.pendingRender, ticket.render)
            /\ ~Holds(h.pendingCleanup, ticket.cleanup) => k = h
<1>1. CASE Holds(h.pendingRender, ticket.render)
  <2> DEFINE k == [h EXCEPT !.pendingRender = None, !.layout = h.pendingRender.layout,
                            !.detail = h.pendingRender.detail]
  <2>1. h.pendingRender \in PendingRenders /\ h.pendingCleanup = None
    BY <1>1 DEF Holds, Handlers, Option
  <2>2. k \in Handlers
    <3>1. h.pendingRender.layout \in Option(SUBSET Cells)
          /\ h.pendingRender.detail \in Option(SUBSET Cells)
      BY <2>1 DEF PendingRenders, Option
    <3> QED
      BY <3>1, LayoutsType DEF Option
  <2>3. /\ k.visible = h.visible /\ k.epoch = h.epoch
        /\ k.renderGen = h.renderGen /\ k.cleanupGen = h.cleanupGen
        /\ k.pendingRender = None /\ k.pendingCleanup = None
        /\ k.layout = h.pendingRender.layout /\ k.detail = h.pendingRender.detail
    BY <2>1 DEF Handlers
  <2>4. CommitRender(h, ticket.render) = k
    BY <1>1 DEF CommitRender
  <2> HIDE DEF k
  <2>5. CommitOverlayWrite(h, ticket) = k
    BY <2>3, <2>4 DEF CommitOverlayWrite, CommitCleanup, Holds
  <2> QED
    BY <1>1, <2>1, <2>2, <2>3, <2>5 DEF Holds
<1>2. CASE ~Holds(h.pendingRender, ticket.render) /\ Holds(h.pendingCleanup, ticket.cleanup)
  <2> DEFINE l == IF h.pendingCleanup.scope = "MainAndDetail" THEN None ELSE h.layout
             k == [h EXCEPT !.pendingCleanup = None, !.layout = l, !.detail = None]
  <2>1. h.pendingRender = None
    BY <1>2 DEF Holds
  <2>2. k \in Handlers
    <3>1. l \in Option(SUBSET Cells)
      BY DEF Handlers, Option
    <3> HIDE DEF l
    <3> QED
      BY <3>1, LayoutsType DEF Option
  <2>3. /\ k.visible = h.visible /\ k.epoch = h.epoch
        /\ k.renderGen = h.renderGen /\ k.cleanupGen = h.cleanupGen
        /\ k.pendingRender = None /\ k.pendingCleanup = None
        /\ k.layout = l /\ k.detail = None
    BY <2>1 DEF Handlers
  <2>4. CommitOverlayWrite(h, ticket) = k
    BY <1>2 DEF CommitOverlayWrite, CommitRender, CommitCleanup
  <2> HIDE DEF k
  <2> QED
    BY <1>2, <2>2, <2>3, <2>4
<1>3. CASE ~Holds(h.pendingRender, ticket.render) /\ ~Holds(h.pendingCleanup, ticket.cleanup)
  BY <1>3 DEF CommitOverlayWrite, CommitRender, CommitCleanup
<1> QED
  BY <1>1, <1>2, <1>3

\* A dropped write gives up the pending commit whose token it carries.
LEMMA DiscardCases ==
  ASSUME NEW h \in Handlers, NEW ticket \in [epoch: Nat, render: Nat, cleanup: Nat]
  PROVE  LET k == DiscardOverlayOwnership(h, ticket) IN
         /\ k \in Handlers
         /\ k.renderGen = h.renderGen /\ k.cleanupGen = h.cleanupGen
         /\ Holds(h.pendingCleanup, ticket.cleanup) =>
              /\ k.pendingCleanup = None /\ k.pendingRender = h.pendingRender
              /\ k.layout = h.layout /\ k.detail = h.detail
              /\ k.epoch = h.epoch /\ k.visible = h.visible
         /\ ~Holds(h.pendingCleanup, ticket.cleanup) /\ Holds(h.pendingRender, ticket.render) =>
              /\ k.pendingCleanup = h.pendingCleanup /\ k.pendingRender = None
              /\ k.layout = None /\ k.detail = None
              /\ k.epoch = h.epoch + 1 /\ ~k.visible
         /\ ~Holds(h.pendingCleanup, ticket.cleanup)
            /\ ~Holds(h.pendingRender, ticket.render) => k = h
<1>1. CASE Holds(h.pendingCleanup, ticket.cleanup)
  <2>1. DiscardOverlayOwnership(h, ticket) = [h EXCEPT !.pendingCleanup = None]
    BY <1>1 DEF DiscardOverlayOwnership
  <2> QED
    BY <1>1, <2>1 DEF Handlers, Option
<1>2. CASE ~Holds(h.pendingCleanup, ticket.cleanup) /\ Holds(h.pendingRender, ticket.render)
  <2> DEFINE k == [h EXCEPT !.pendingRender = None, !.layout = None, !.detail = None]
             j == Hidden(k)
             i == [j EXCEPT !.epoch = @ + 1]
  <2>1. k \in Handlers
    BY LayoutsType DEF Option
  <2>2. /\ k.epoch = h.epoch /\ k.renderGen = h.renderGen
        /\ k.cleanupGen = h.cleanupGen /\ k.pendingCleanup = h.pendingCleanup
        /\ k.pendingRender = None /\ k.layout = None /\ k.detail = None
    BY DEF Handlers
  <2>3. DiscardOverlayOwnership(h, ticket) = i
    BY <1>2 DEF DiscardOverlayOwnership, Bump
  <2> HIDE DEF k
  <2>4. j \in Handlers /\ SameAccounts(j, k) /\ ~j.visible
    BY <2>1, Contents DEF Meeker, Kin, Feedbacks
  <2> HIDE DEF j
  <2>5. i \in Handlers
    <3>1. j.epoch + 1 \in Nat
      BY <2>4 DEF Handlers
    <3> QED
      BY <2>4, <3>1, AccountsType, NoneAssumption DEF Option
  <2>6. /\ i.epoch = j.epoch + 1 /\ i.renderGen = j.renderGen
        /\ i.cleanupGen = j.cleanupGen /\ i.pendingCleanup = j.pendingCleanup
        /\ i.pendingRender = j.pendingRender /\ i.layout = j.layout
        /\ i.detail = j.detail /\ i.visible = j.visible
    BY <2>4 DEF Handlers
  <2> HIDE DEF i
  <2> QED
    BY <1>2, <2>2, <2>3, <2>4, <2>5, <2>6 DEF SameAccounts
<1>3. CASE ~Holds(h.pendingCleanup, ticket.cleanup) /\ ~Holds(h.pendingRender, ticket.render)
  BY <1>3 DEF DiscardOverlayOwnership
<1> QED
  BY <1>1, <1>2, <1>3

\* A ticket carries the epoch and the tokens of what is pending.
LEMMA TicketType ==
  ASSUME NEW h \in Handlers
  PROVE  LET ticket == OverlayWriteTicket(h) IN
         /\ ticket \in [epoch: Nat, render: Nat, cleanup: Nat]
         /\ ticket.epoch = h.epoch
         /\ ticket.render = TokenOf(h.pendingRender)
         /\ ticket.cleanup = TokenOf(h.pendingCleanup)
  BY DEF OverlayWriteTicket, TokenOf, Handlers, Option, PendingRenders, PendingCleanups

\* Task B releases whatever is owned, and clears it itself.
LEMMA TerminalOutputCases ==
  ASSUME NEW h \in Handlers, h.pendingRender = None \/ h.pendingCleanup = None,
         h.layout = None => h.detail = None
  PROVE  LET out == HandleTerminalOutput(h) IN
         /\ out.h \in Handlers
         /\ out.erase = Owned(h)
         /\ h.epoch < out.h.epoch
         /\ out.h.renderGen >= h.renderGen /\ out.h.cleanupGen >= h.cleanupGen
         /\ out.h.layout = None /\ out.h.detail = None
         /\ \/ out.h.pendingRender = None /\ out.h.pendingCleanup = None
            \/ /\ ~out.h.visible
               /\ out.h.pendingRender = h.pendingRender
               /\ out.h.pendingCleanup = h.pendingCleanup
               /\ out.h.renderGen = h.renderGen /\ out.h.cleanupGen = h.cleanupGen
<1> DEFINE shows == h.visible \/ h.layout # None \/ h.feedback # "Idle"
<1>1. CASE ~shows
  <2> DEFINE k == [h EXCEPT !.epoch = @ + 1]
  <2>1. HandleTerminalOutput(h) = Out(k, {}, {})
    BY <1>1 DEF HandleTerminalOutput, Quiet, Bump
  <2>2. k \in Handlers
    <3>1. h.epoch + 1 \in Nat
      BY DEF Handlers
    <3> QED
      BY <3>1, AccountsType, NoneAssumption DEF Option
  <2>3. /\ k.epoch = h.epoch + 1 /\ k.renderGen = h.renderGen
        /\ k.cleanupGen = h.cleanupGen /\ k.pendingCleanup = h.pendingCleanup
        /\ k.pendingRender = h.pendingRender /\ k.layout = h.layout
        /\ k.detail = h.detail /\ k.visible = h.visible
    BY DEF Handlers
  <2>4. Owned(h) = {}
    BY <1>1 DEF Owned, CellsOf
  <2>5. h.epoch \in Nat /\ h.renderGen \in Nat /\ h.cleanupGen \in Nat
    BY DEF Handlers
  <2> HIDE DEF k
  <2> QED
    BY <1>1, <2>1, <2>2, <2>3, <2>4, <2>5 DEF Out
<1>2. CASE shows
  <2> DEFINE b == Bump(Bump(h))
             t == TeardownPopup(b)
             k == CommitOverlayWrite(t.h, OverlayWriteTicket(t.h))
  <2>1. b \in Handlers
    <3>1. h.epoch + 1 \in Nat /\ h.epoch + 2 \in Nat
      BY DEF Handlers
    <3>2. Bump(h) \in Handlers /\ Bump(h).epoch = h.epoch + 1
      BY <3>1, AccountsType, NoneAssumption DEF Option, Bump, Handlers
    <3>3. Bump(h).epoch + 1 \in Nat
      BY <3>2 DEF Handlers
    <3> QED
      BY <3>2, <3>3, AccountsType, NoneAssumption DEF Option, Bump
  <2>2. /\ b.epoch = h.epoch + 2 /\ b.renderGen = h.renderGen
        /\ b.cleanupGen = h.cleanupGen /\ b.layout = h.layout /\ b.detail = h.detail
    BY DEF Handlers, Bump
  <2>3. Owned(b) = Owned(h)
    BY <2>2 DEF Owned
  <2>4. HandleTerminalOutput(h) = [t EXCEPT !.h = k]
    BY <1>2 DEF HandleTerminalOutput
  <2> HIDE DEF b
  <2>5. /\ t \in Outs
        /\ IF b.layout # None \/ b.detail # None
           THEN StagesCleanup(b, t)
           ELSE EmitsNothing(b, t) /\ t.h.pendingRender = None /\ t.h.pendingCleanup = None
    BY <2>1, TeardownStages
  <2>6. t.erase = Owned(h)
    <3>1. CASE b.layout # None \/ b.detail # None
      BY <2>1, <2>3, <3>1, CleanupStages DEF Out, t, TeardownPopup
    <3>2. CASE ~(b.layout # None \/ b.detail # None)
      BY <2>3, <2>5, <3>2 DEF EmitsNothing, Owned, CellsOf
    <3> QED
      BY <3>1, <3>2
  <2>7. /\ t.h \in Handlers /\ t.h.epoch >= b.epoch /\ t.h.epoch \in Nat
        /\ t.h.renderGen = b.renderGen /\ t.h.cleanupGen >= b.cleanupGen
        /\ t.h.pendingRender = None
        /\ b.epoch \in Nat /\ b.cleanupGen \in Nat /\ b.renderGen \in Nat
    BY <2>1, <2>5 DEF Outs, StagesCleanup, EmitsNothing, Handlers
  <2> DEFINE ticket == OverlayWriteTicket(t.h)
  <2>8. /\ ticket \in [epoch: Nat, render: Nat, cleanup: Nat]
        /\ ticket.cleanup = TokenOf(t.h.pendingCleanup)
    BY <2>7, TicketType
  <2>9. t.h.pendingCleanup # None => Holds(t.h.pendingCleanup, ticket.cleanup)
    BY <2>8 DEF Holds, TokenOf
  <2>10. ~Holds(t.h.pendingRender, ticket.render)
    BY <2>7 DEF Holds
  <2>11. t.h.pendingCleanup # None => t.h.pendingCleanup.scope = "MainAndDetail"
    <3>1. CASE b.layout # None \/ b.detail # None
      BY <2>1, <3>1, CleanupStages, HiddenKeepsCleanup DEF Out, t, TeardownPopup
    <3>2. CASE ~(b.layout # None \/ b.detail # None)
      BY <2>5, <3>2
    <3> QED
      BY <3>1, <3>2
  <2> HIDE DEF t, ticket
  <2>12. /\ k \in Handlers
         /\ k.epoch = t.h.epoch /\ k.renderGen = t.h.renderGen
         /\ k.cleanupGen = t.h.cleanupGen
         /\ k.pendingRender = None /\ k.pendingCleanup = None
         /\ k.layout = None /\ k.detail = None
    <3>1. CASE t.h.pendingCleanup # None
      BY <2>7, <2>8, <2>9, <2>11, <3>1, CommitCases DEF ticket
    <3>2. CASE t.h.pendingCleanup = None
      <4>1. t.h.layout = None /\ t.h.detail = None
        BY <2>5, <3>2 DEF StagesCleanup, EmitsNothing
      <4>2. ~Holds(t.h.pendingCleanup, ticket.cleanup)
        BY <3>2 DEF Holds
      <4>3. k = t.h
        BY <2>7, <2>8, <2>10, <4>2, CommitCases DEF ticket
      <4> QED
        BY <2>7, <3>2, <4>1, <4>3
    <3> QED
      BY <3>1, <3>2
  <2> HIDE DEF k
  <2>13. /\ HandleTerminalOutput(h).h = k /\ HandleTerminalOutput(h).erase = Owned(h)
    BY <2>4, <2>5, <2>6 DEF Outs
  <2>14. h.epoch \in Nat
    BY DEF Handlers
  <2> QED
    BY <2>2, <2>7, <2>12, <2>13, <2>14
<1> QED
  BY <1>1, <1>2

-----------------------------------------------------------------------------
(* The inductive invariant.                                                *)

Accounts(t) == OwnsToken(t) /\ Accounted(t)

\* What is known of the writes in flight, by how ownership was lost so far.
TokensOwned     == \A t \in Tasks : inflight[t] # None => OwnsToken(t)
ScreenAccounted == NoGhost /\ \A t \in Tasks : inflight[t] # None => Accounts(t)

\* The parts of the ledger, the screen taken as one.
LEMMA LedgerParts ==
  Ledger <=> /\ TypeOK /\ TokensInOrder /\ OneCurrent
             /\ "borrowed" \notin orphaned => TokensOwned
             /\ orphaned = {} => ScreenAccounted
  BY DEF Ledger, ScreenAccounted, TokensOwned, Accounts

\* Staging an accountable operation keeps the ledger.
LEMMA StageKeepsLedger ==
  ASSUME Ledger, NEW t, Ready(t), NEW out, Accountable(handler, out), Stage(t, out),
         blocked' \in BOOLEAN
  PROVE  Ledger'
<1> DEFINE r == [ticket |-> OverlayWriteTicket(out.h),
                 erase |-> out.erase, paint |-> out.paint]
           quiet == out.erase \cup out.paint = {}
<1>1. /\ TypeOK /\ TokensInOrder /\ OneCurrent
      /\ "borrowed" \notin orphaned => TokensOwned
      /\ orphaned = {} => ScreenAccounted
  BY LedgerParts
<1>2. /\ t \in Tasks /\ inflight[t] = None
      /\ out \in Outs /\ out.h \in Handlers
      /\ out.erase \in SUBSET Cells /\ out.paint \in SUBSET Cells
      /\ handler' = out.h /\ shell' = shell /\ screen' = screen
      /\ handler \in Handlers
  BY <1>1 DEF Ready, Accountable, Outs, Stage, TypeOK
<1>3. /\ r.ticket \in [epoch: Nat, render: Nat, cleanup: Nat]
      /\ r.ticket.epoch = handler'.epoch
      /\ r.ticket.render = TokenOf(handler'.pendingRender)
      /\ r.ticket.cleanup = TokenOf(handler'.pendingCleanup)
      /\ r.erase = out.erase /\ r.paint = out.paint
      /\ r \in Staged /\ r # None
  BY <1>2, TicketType, NoneAssumption DEF Staged
<1>4. inflight' = [inflight EXCEPT ![t] = IF quiet THEN None ELSE r]
  BY DEF Stage
<1> HIDE DEF r
<1>5. /\ inflight' \in [Tasks -> Option(Staged)]
      /\ inflight'[t] = IF quiet THEN None ELSE r
      /\ \A u \in Tasks : u # t => inflight'[u] = inflight[u]
  BY <1>1, <1>2, <1>3, <1>4 DEF TypeOK, Option
<1>6. /\ orphaned' \in SUBSET {"forgotten", "borrowed", "clipped", "uncovered"}
      /\ orphaned' = {} => /\ orphaned = {}
                           /\ ~ForgetsRender(handler, handler')
                           /\ ~BorrowsToken(handler, handler') /\ out.left = {}
      /\ "borrowed" \notin orphaned' => /\ "borrowed" \notin orphaned
                                        /\ ~BorrowsToken(handler, handler')
  BY <1>1, <1>2 DEF Stage, TypeOK
<1>7. TypeOK'
  BY <1>1, <1>2, <1>5, <1>6 DEF TypeOK
<1>8. /\ handler.epoch \in Nat /\ handler.renderGen \in Nat /\ handler.cleanupGen \in Nat
      /\ \A u \in Tasks : inflight[u] # None =>
           /\ inflight[u] \in Staged
           /\ inflight[u].ticket.epoch \in Nat
           /\ inflight[u].ticket.render \in Nat
           /\ inflight[u].ticket.cleanup \in Nat
  BY <1>1 DEF TypeOK, Handlers, Staged, Option
<1>9. CASE EmitsNothing(handler, out)
  <2>1. inflight' = inflight
    <3>1. quiet
      BY <1>9 DEF EmitsNothing
    <3> QED
      BY <1>1, <1>2, <1>5, <3>1 DEF TypeOK
  <2>2. /\ handler'.layout = handler.layout /\ handler'.detail = handler.detail
        /\ handler'.epoch = handler.epoch
        /\ handler'.renderGen = handler.renderGen
        /\ handler'.cleanupGen = handler.cleanupGen
        /\ \/ /\ handler'.pendingRender = handler.pendingRender
              /\ handler'.pendingCleanup = handler.pendingCleanup
           \/ handler'.pendingRender = None /\ handler'.pendingCleanup = None
        /\ handler'.visible => handler.visible
    BY <1>2, <1>9 DEF EmitsNothing
  <2>3. TokensInOrder'
    BY <1>1, <2>1, <2>2 DEF TokensInOrder
  <2>4. OneCurrent'
    BY <1>1, <2>1, <2>2 DEF OneCurrent, Current
  <2>5. Owned(handler') = Owned(handler)
    BY <2>2 DEF Owned
  <2>6. ASSUME "borrowed" \notin orphaned' PROVE TokensOwned'
    <3>1. ASSUME NEW u \in Tasks, inflight[u] # None
          PROVE  OwnsToken(u)'
      <4>1. OwnsToken(u) /\ Current(u)' = Current(u)
        BY <1>1, <1>6, <2>1, <2>2, <2>6, <3>1 DEF TokensOwned, Current
      <4>2. HoldsRender(u)' => HoldsRender(u) /\ handler'.pendingRender = handler.pendingRender
        BY <2>1, <2>2 DEF HoldsRender, Holds
      <4> QED
        BY <2>1, <2>2, <2>5, <4>1, <4>2 DEF OwnsToken
    <3> QED
      BY <2>1, <3>1 DEF TokensOwned
  <2>7. ASSUME orphaned' = {} PROVE ScreenAccounted'
    <3>1. ScreenAccounted /\ ~ForgetsRender(handler, handler')
      BY <1>1, <1>6, <2>7
    <3>2. Owned(handler') = Owned(handler)
      BY <2>5
    <3>3. NoGhost'
      BY <1>2, <2>1, <3>1, <3>2 DEF ScreenAccounted, NoGhost, BeingCleared, Unacknowledged
    <3>4. ASSUME NEW u \in Tasks, inflight[u] # None
          PROVE  Accounts(u)'
      <4>1. Accounts(u)
        BY <3>1, <3>4 DEF ScreenAccounted
      <4>2. Current(u)' = Current(u)
        BY <2>1, <2>2 DEF Current
      <4>3. CASE /\ handler'.pendingRender = handler.pendingRender
                 /\ handler'.pendingCleanup = handler.pendingCleanup
        <5>1. HoldsRender(u)' = HoldsRender(u) /\ HoldsCleanup(u)' = HoldsCleanup(u)
          BY <2>1, <4>3 DEF HoldsRender, HoldsCleanup
        <5> QED
          BY <2>1, <2>2, <3>2, <4>1, <4>2, <4>3, <5>1 DEF Accounts, OwnsToken, Accounted
      <4>4. CASE handler'.pendingRender = None /\ handler'.pendingCleanup = None
        <5>1. handler.pendingRender = None
          BY <2>2, <3>1, <4>4 DEF ForgetsRender
        <5>2. ~HoldsRender(u) /\ ~HoldsRender(u)' /\ ~HoldsCleanup(u)'
          BY <4>4, <5>1 DEF HoldsRender, HoldsCleanup, Holds
        <5> QED
          BY <2>1, <2>2, <3>2, <4>1, <4>2, <5>2 DEF Accounts, OwnsToken, Accounted
      <4> QED
        BY <2>2, <4>3, <4>4
    <3> QED
      BY <2>1, <3>3, <3>4 DEF ScreenAccounted
  <2> QED
    BY <1>7, <2>3, <2>4, <2>6, <2>7 DEF Ledger, ScreenAccounted, TokensOwned, Accounts
<1>10. CASE StagesRender(handler, out) \/ StagesCleanup(handler, out) \/ Repaints(handler, out)
  <2>1. /\ handler'.epoch = handler.epoch + 1
        /\ handler'.renderGen \in Nat /\ handler'.renderGen >= handler.renderGen
        /\ handler'.cleanupGen \in Nat /\ handler'.cleanupGen >= handler.cleanupGen
    BY <1>2, <1>8, <1>10 DEF StagesRender, StagesCleanup, Repaints
  <2>2. ASSUME NEW u \in Tasks, u # t, inflight'[u] # None
        PROVE  /\ inflight'[u] = inflight[u] /\ inflight[u] # None
               /\ inflight[u].ticket.epoch <= handler.epoch
               /\ inflight[u].ticket.render <= handler.renderGen
               /\ inflight[u].ticket.cleanup <= handler.cleanupGen
               /\ ~Current(u)'
    BY <1>1, <1>5, <1>8, <2>1, <2>2 DEF TokensInOrder, Current
  <2>3. inflight'[t] # None => inflight'[t] = r /\ Current(t)' /\ ~quiet
    BY <1>3, <1>5 DEF Current
  <2>4. OneCurrent'
    BY <2>2 DEF OneCurrent
  <2>5. /\ TokenOf(handler'.pendingRender) <= handler'.renderGen
        /\ TokenOf(handler'.pendingCleanup) <= handler'.cleanupGen
        /\ handler'.pendingRender # None => handler'.pendingRender.token \in 1..handler'.renderGen
        /\ handler'.pendingCleanup # None => handler'.pendingCleanup.token \in 1..handler'.cleanupGen
        /\ handler'.pendingRender = None \/ handler'.pendingCleanup = None
    <3>1. CASE StagesRender(handler, out)
      BY <1>2, <1>8, <3>1 DEF StagesRender, TokenOf
    <3>2. CASE StagesCleanup(handler, out)
      BY <1>2, <1>8, <3>2 DEF StagesCleanup, TokenOf
    <3>3. CASE Repaints(handler, out)
      BY <1>1, <1>2, <1>8, <3>3 DEF Repaints, TokenOf, TokensInOrder
    <3> QED
      BY <1>10, <3>1, <3>2, <3>3
  <2>6. handler'.layout = None => handler'.detail = None
    BY <1>1, <1>2, <1>10 DEF StagesRender, StagesCleanup, Repaints, TokensInOrder
  <2>7. TokensInOrder'
    <3>1. ASSUME NEW u \in Tasks, inflight'[u] # None
          PROVE  /\ inflight'[u].ticket.epoch <= handler'.epoch
                 /\ inflight'[u].ticket.render <= handler'.renderGen
                 /\ inflight'[u].ticket.cleanup <= handler'.cleanupGen
      <4>1. CASE u = t
        BY <1>3, <2>1, <1>8, <2>3, <2>5, <3>1, <4>1
      <4>2. CASE u # t
        BY <1>8, <2>1, <2>2, <3>1, <4>2
      <4> QED
        BY <4>1, <4>2
    <3> QED
      BY <2>5, <2>6, <3>1 DEF TokensInOrder
  <2>8. ASSUME "borrowed" \notin orphaned' PROVE TokensOwned'
    <3>1. ASSUME NEW u \in Tasks, u # t, inflight'[u] # None
          PROVE  ~HoldsRender(u)'
      <4>1. CASE StagesRender(handler, out)
        BY <1>1, <1>2, <1>8, <2>2, <3>1, <4>1 DEF StagesRender, HoldsRender, Holds, TokensInOrder
      <4>2. CASE StagesCleanup(handler, out)
        BY <1>2, <4>2 DEF StagesCleanup, HoldsRender, Holds
      <4>3. CASE Repaints(handler, out)
        BY <1>2, <1>6, <1>8, <2>8, <4>3 DEF Repaints, BorrowsToken, HoldsRender, Holds
      <4> QED
        BY <1>10, <4>1, <4>2, <4>3
    <3>2. ASSUME inflight'[t] # None PROVE OwnsToken(t)'
      <4>1. CASE StagesRender(handler, out)
        BY <1>2, <1>3, <2>3, <3>2, <4>1 DEF StagesRender, OwnsToken
      <4>2. CASE StagesCleanup(handler, out)
        BY <1>2, <4>2 DEF StagesCleanup, OwnsToken, HoldsRender, Holds
      <4>3. CASE Repaints(handler, out)
        BY <1>2, <1>6, <1>8, <2>8, <4>3 DEF Repaints, BorrowsToken, OwnsToken, HoldsRender, Holds
      <4> QED
        BY <1>10, <4>1, <4>2, <4>3
    <3> QED
      BY <3>1, <3>2 DEF TokensOwned, OwnsToken
  <2>9. ASSUME orphaned' = {} PROVE ScreenAccounted'
    <3>1. ScreenAccounted /\ ~BorrowsToken(handler, handler') /\ out.left = {}
      BY <1>1, <1>6, <2>9
    <3>2. ASSUME \A u \in Tasks : u # t /\ inflight[u] # None =>
                   ~Holds(handler'.pendingRender, inflight[u].ticket.render),
                 inflight'[t] # None => Accounts(t)'
          PROVE  \A u \in Tasks : inflight'[u] # None => Accounts(u)'
      BY <2>2, <3>2 DEF Accounts, OwnsToken, Accounted, HoldsRender
    <3>3. BeingCleared \subseteq BeingCleared'
      BY <1>2, <2>2, <1>5 DEF BeingCleared, Unacknowledged
    <3>4. CASE StagesRender(handler, out)
      <4>1. Owned(handler') = Owned(handler)
        BY <1>2, <3>4 DEF StagesRender, Owned
      <4>2. NoGhost'
        BY <1>2, <3>1, <3>3, <4>1 DEF ScreenAccounted, NoGhost
      <4>3. \A u \in Tasks : u # t /\ inflight[u] # None =>
              ~Holds(handler'.pendingRender, inflight[u].ticket.render)
        BY <1>1, <1>2, <1>8, <3>4 DEF StagesRender, Holds, TokensInOrder
      <4>4. inflight'[t] # None => Accounts(t)'
        BY <1>2, <1>3, <2>3, <3>1, <3>4, <4>1
        DEF StagesRender, Accounts, OwnsToken, Accounted, HoldsRender, HoldsCleanup, Holds, TokenOf
      <4> QED
        BY <3>2, <4>2, <4>3, <4>4 DEF ScreenAccounted
    <3>5. CASE StagesCleanup(handler, out)
      <4>1. Owned(handler') = Owned(handler)
        BY <1>2, <3>5 DEF StagesCleanup, Owned
      <4>2. NoGhost'
        BY <1>2, <3>1, <3>3, <4>1 DEF ScreenAccounted, NoGhost
      <4>3. handler'.pendingRender = None
        BY <1>2, <3>5 DEF StagesCleanup
      <4>4. inflight'[t] # None => Accounts(t)'
        BY <1>2, <1>3, <2>3, <3>5, <4>1, <4>3
        DEF StagesCleanup, Accounts, OwnsToken, Accounted, HoldsRender, HoldsCleanup, Holds
      <4> QED
        BY <3>2, <4>2, <4>3, <4>4 DEF ScreenAccounted, Holds
    <3>6. CASE Repaints(handler, out)
      <4>1. handler'.pendingRender = None /\ handler'.pendingCleanup = None
        BY <1>2, <1>8, <3>1, <3>6 DEF Repaints, BorrowsToken
      <4>2. /\ inflight'[t] # None =>
                 /\ inflight'[t].ticket.render = 0 /\ inflight'[t].ticket.cleanup = 0
                 /\ inflight'[t].paint = out.paint /\ inflight'[t].erase = out.erase
            /\ inflight'[t] = None => out.erase = {} /\ out.paint = {}
        BY <1>3, <1>5, <2>3, <4>1 DEF TokenOf
      <4>3. CASE /\ out.erase = {} /\ out.paint = CellsOf(handler.layout)
                 /\ out.h.layout = handler.layout
        <5>1. Owned(handler') = Owned(handler)
          BY <1>2, <3>6, <4>3 DEF Repaints, Owned
        <5>2. out.paint \subseteq Owned(handler')
          BY <4>3, <5>1 DEF Owned
        <5> QED
          BY <1>2, <3>1, <3>2, <3>3, <4>1, <4>2, <5>1, <5>2
          DEF ScreenAccounted, NoGhost, Accounts, OwnsToken, Accounted, HoldsRender, HoldsCleanup, Holds
      <4>4. CASE /\ out.paint = {}
                 /\ out.h.layout = CellsOf(handler.layout) \ out.erase
        <5>1. Owned(handler) \subseteq Owned(handler') \cup out.erase
          <6>1. CellsOf(handler'.layout) = CellsOf(handler.layout) \ out.erase
            BY <1>2, <3>6, <4>4 DEF Repaints, CellsOf
          <6>2. handler'.detail = handler.detail
            BY <1>2, <3>6 DEF Repaints
          <6> QED
            BY <6>1, <6>2 DEF Owned
        <5>2. out.erase \subseteq BeingCleared'
          <6>1. CASE inflight'[t] = None
            BY <4>2, <6>1
          <6>2. CASE inflight'[t] # None
            BY <1>2, <4>2, <4>4, <6>2 DEF BeingCleared, Unacknowledged
          <6> QED
            BY <6>1, <6>2
        <5> QED
          BY <1>2, <3>1, <3>2, <3>3, <4>1, <4>2, <4>4, <5>1, <5>2
          DEF ScreenAccounted, NoGhost, Accounts, OwnsToken, Accounted, HoldsRender, HoldsCleanup, Holds
      <4> QED
        BY <3>6, <4>3, <4>4 DEF Repaints
    <3> QED
      BY <1>10, <3>4, <3>5, <3>6
  <2> QED
    BY <1>7, <2>4, <2>7, <2>8, <2>9 DEF Ledger, ScreenAccounted, TokensOwned, Accounts
<1> QED
  BY <1>9, <1>10 DEF Accountable

\* Task B's first critical section makes every buffer in flight stale, and
\* takes over the clearing of what was owned.
LEMMA ReadKeepsLedger ==
  ASSUME Ledger, ReadShellOutput
  PROVE  Ledger'
<1> DEFINE out == HandleTerminalOutput(handler)
<1>1. /\ TypeOK /\ TokensInOrder /\ OneCurrent
      /\ "borrowed" \notin orphaned => TokensOwned
      /\ orphaned = {} => ScreenAccounted
      /\ handler \in Handlers
      /\ handler.pendingRender = None \/ handler.pendingCleanup = None
      /\ handler.layout = None => handler.detail = None
  BY LedgerParts DEF TypeOK, TokensInOrder
<1>2. /\ shell = None /\ shell' = [erase |-> out.erase] /\ handler' = out.h
      /\ inflight' = inflight /\ screen' = screen /\ orphaned' = orphaned
      /\ blocked' = blocked
  BY DEF ReadShellOutput, Ready
<1>3. /\ out.h \in Handlers
      /\ out.erase = Owned(handler)
      /\ handler.epoch < out.h.epoch
      /\ out.h.renderGen >= handler.renderGen /\ out.h.cleanupGen >= handler.cleanupGen
      /\ out.h.layout = None /\ out.h.detail = None
      /\ \/ out.h.pendingRender = None /\ out.h.pendingCleanup = None
         \/ /\ ~out.h.visible
            /\ out.h.pendingRender = handler.pendingRender
            /\ out.h.pendingCleanup = handler.pendingCleanup
            /\ out.h.renderGen = handler.renderGen /\ out.h.cleanupGen = handler.cleanupGen
  BY <1>1, TerminalOutputCases
<1> HIDE DEF out
<1>4. /\ shell' \in Cleanups /\ shell' # None /\ shell'.erase = Owned(handler)
  BY <1>1, <1>2, <1>3, OwnedCells, NoneAssumption DEF Cleanups
<1>5. TypeOK'
  BY <1>1, <1>2, <1>3, <1>4 DEF TypeOK, Option
<1>6. ASSUME NEW u \in Tasks, inflight[u] # None
      PROVE  /\ ~Current(u)'
             /\ inflight[u].ticket.epoch <= handler'.epoch
             /\ inflight[u].ticket.render <= handler'.renderGen
             /\ inflight[u].ticket.cleanup <= handler'.cleanupGen
  <2>1. /\ inflight[u].ticket.epoch \in Nat /\ inflight[u].ticket.render \in Nat
        /\ inflight[u].ticket.cleanup \in Nat
    BY <1>1, <1>6 DEF TypeOK, Option, Staged
  <2>2. /\ handler.epoch \in Nat /\ handler'.epoch \in Nat
        /\ handler.renderGen \in Nat /\ handler'.renderGen \in Nat
        /\ handler.cleanupGen \in Nat /\ handler'.cleanupGen \in Nat
    BY <1>1, <1>2, <1>3 DEF Handlers
  <2> QED
    BY <1>1, <1>2, <1>3, <1>6, <2>1, <2>2 DEF TokensInOrder, Current
<1>7. TokensInOrder'
  BY <1>1, <1>2, <1>3, <1>6 DEF TokensInOrder
<1>8. OneCurrent'
  BY <1>2, <1>6 DEF OneCurrent
<1>9. Owned(handler') = {}
  BY <1>2, <1>3 DEF Owned, CellsOf
<1>10. ASSUME "borrowed" \notin orphaned' PROVE TokensOwned'
  <2>1. ASSUME NEW u \in Tasks, inflight[u] # None
        PROVE  OwnsToken(u)'
    BY <1>2, <1>3, <1>6, <1>9, <2>1 DEF OwnsToken, HoldsRender, Holds
  <2> QED
    BY <1>2, <2>1 DEF TokensOwned
<1>11. ASSUME orphaned' = {} PROVE ScreenAccounted'
  <2>1. ScreenAccounted
    BY <1>1, <1>2, <1>11
  <2>2. Owned(handler') = {}
    BY <1>9
  <2>3. NoGhost'
    BY <1>2, <1>4, <2>1 DEF ScreenAccounted, NoGhost, BeingCleared, Unacknowledged
  <2>4. ASSUME NEW u \in Tasks, inflight[u] # None
        PROVE  Accounts(u)'
    BY <1>2, <1>3, <1>6, <2>2, <2>4 DEF Accounts, OwnsToken, Accounted, HoldsRender, Holds
  <2> QED
    BY <1>2, <2>3, <2>4 DEF ScreenAccounted
<1> QED
  BY <1>5, <1>7, <1>8, <1>10, <1>11 DEF Ledger, ScreenAccounted, TokensOwned, Accounts

\* Task B's write clears what it had taken over.
LEMMA WriteShellKeepsLedger ==
  ASSUME Ledger, WriteShellOutput
  PROVE  Ledger'
<1>1. /\ TypeOK /\ TokensInOrder /\ OneCurrent
      /\ "borrowed" \notin orphaned => TokensOwned
      /\ orphaned = {} => ScreenAccounted
  BY LedgerParts
<1>2. /\ shell # None /\ screen' = screen \ shell.erase /\ shell' = None
      /\ handler' = handler /\ blocked' = blocked
      /\ inflight' = inflight /\ orphaned' = orphaned
  BY DEF WriteShellOutput
<1>3. TypeOK'
  BY <1>1, <1>2 DEF TypeOK, Option
<1>4. TokensInOrder' /\ OneCurrent'
  BY <1>1, <1>2 DEF TokensInOrder, OneCurrent, Current
<1>5. ASSUME "borrowed" \notin orphaned' PROVE TokensOwned'
  BY <1>1, <1>2, <1>5 DEF TokensOwned, OwnsToken, HoldsRender, Current
<1>6. ASSUME orphaned' = {} PROVE ScreenAccounted'
  <2>1. ScreenAccounted
    BY <1>1, <1>2, <1>6
  <2>2. NoGhost'
    BY <1>2, <2>1 DEF ScreenAccounted, NoGhost, BeingCleared, Unacknowledged
  <2>3. \A u \in Tasks : Accounts(u)' = Accounts(u)
    BY <1>2 DEF Accounts, OwnsToken, Accounted, HoldsRender, HoldsCleanup, Current
  <2> QED
    BY <1>2, <2>1, <2>2, <2>3 DEF ScreenAccounted
<1> QED
  BY <1>3, <1>4, <1>5, <1>6 DEF Ledger, ScreenAccounted, TokensOwned, Accounts

\* A write that passes the gate puts on the screen what it acknowledges.
LEMMA WriteKeepsLedger ==
  ASSUME Ledger, NEW t \in Tasks, WriteOverlay(t)
  PROVE  Ledger'
<1> DEFINE ticket == inflight[t].ticket
<1>1. /\ TypeOK /\ TokensInOrder /\ OneCurrent
      /\ "borrowed" \notin orphaned => TokensOwned
      /\ orphaned = {} => ScreenAccounted
      /\ handler \in Handlers
      /\ handler.pendingRender = None \/ handler.pendingCleanup = None
  BY LedgerParts DEF TypeOK, TokensInOrder
<1>2. /\ inflight[t] # None /\ Current(t)
      /\ screen' = (screen \ inflight[t].erase) \cup inflight[t].paint
      /\ handler' = CommitOverlayWrite(handler, ticket)
      /\ shell' = shell /\ orphaned' = orphaned /\ blocked' = blocked
      /\ inflight' = [inflight EXCEPT ![t] = None]
  BY DEF WriteOverlay
<1>3. inflight[t] \in Staged /\ ticket \in [epoch: Nat, render: Nat, cleanup: Nat]
      /\ inflight[t].erase \in SUBSET Cells /\ inflight[t].paint \in SUBSET Cells
  BY <1>1, <1>2 DEF TypeOK, Option, Staged
<1>4. /\ handler' \in Handlers
      /\ handler'.visible = handler.visible /\ handler'.epoch = handler.epoch
      /\ handler'.renderGen = handler.renderGen /\ handler'.cleanupGen = handler.cleanupGen
      /\ HoldsRender(t) =>
           /\ handler'.pendingRender = None /\ handler'.pendingCleanup = None
           /\ handler'.layout = handler.pendingRender.layout
           /\ handler'.detail = handler.pendingRender.detail
      /\ HoldsCleanup(t) =>
           /\ handler'.pendingRender = None /\ handler'.pendingCleanup = None
           /\ handler'.layout = IF handler.pendingCleanup.scope = "MainAndDetail"
                                THEN None ELSE handler.layout
           /\ handler'.detail = None
      /\ ~HoldsRender(t) /\ ~HoldsCleanup(t) => handler' = handler
  BY <1>1, <1>2, <1>3, CommitCases DEF HoldsRender, HoldsCleanup
<1>5. /\ inflight'[t] = None
      /\ \A u \in Tasks : u # t => inflight'[u] = inflight[u]
      /\ inflight' \in [Tasks -> Option(Staged)]
  BY <1>1, <1>2 DEF TypeOK, Option
<1>6. TypeOK'
  BY <1>1, <1>2, <1>3, <1>4, <1>5 DEF TypeOK
<1>7. handler'.layout = None => handler'.detail = None
  <2>1. handler.pendingRender # None => handler.pendingRender.layout # None
    BY <1>1, NoneAssumption DEF Handlers, Option, PendingRenders
  <2> QED
    BY <1>1, <1>4, <2>1 DEF TokensInOrder, HoldsRender, Holds
<1>8. TokensInOrder'
  BY <1>1, <1>4, <1>5, <1>7 DEF TokensInOrder
<1>9. ASSUME NEW u \in Tasks, inflight'[u] # None
      PROVE  u # t /\ inflight'[u] = inflight[u] /\ ~Current(u) /\ ~Current(u)'
  BY <1>1, <1>2, <1>4, <1>5, <1>9 DEF OneCurrent, Current
<1>10. OneCurrent'
  BY <1>9 DEF OneCurrent
<1>11. ASSUME "borrowed" \notin orphaned' PROVE TokensOwned'
  <2>1. ASSUME NEW u \in Tasks, inflight'[u] # None
        PROVE  OwnsToken(u)'
    <3>1. OwnsToken(u) /\ u # t /\ inflight'[u] = inflight[u] /\ ~Current(u) /\ ~Current(u)'
      BY <1>1, <1>2, <1>9, <1>11, <2>1 DEF TokensOwned
    <3>2. CASE HoldsRender(t) \/ HoldsCleanup(t)
      BY <1>4, <3>2 DEF OwnsToken, HoldsRender, Holds
    <3>3. CASE ~HoldsRender(t) /\ ~HoldsCleanup(t)
      BY <1>4, <3>1, <3>3 DEF OwnsToken, HoldsRender
    <3> QED
      BY <3>2, <3>3
  <2> QED
    BY <2>1 DEF TokensOwned
<1>12. ASSUME orphaned' = {} PROVE ScreenAccounted'
  <2>1. ScreenAccounted /\ Accounts(t)
    BY <1>1, <1>2, <1>12 DEF ScreenAccounted
  <2>2. \A u \in Tasks : u # t => Unacknowledged(u)' = Unacknowledged(u)
    BY <1>5 DEF Unacknowledged
  <2>3. BeingCleared \subseteq BeingCleared' \cup inflight[t].erase
    BY <1>2, <1>5, <2>2 DEF BeingCleared
  <2>4. /\ screen \subseteq Owned(handler) \cup BeingCleared
    BY <2>1 DEF ScreenAccounted, NoGhost
  <2>5. ASSUME NEW u \in Tasks, inflight'[u] # None
        PROVE  Accounts(u)'
    <3>1. Accounts(u) /\ u # t /\ inflight'[u] = inflight[u] /\ ~Current(u) /\ ~Current(u)'
      BY <1>5, <1>9, <2>1, <2>5 DEF ScreenAccounted
    <3>2. CASE HoldsRender(t) \/ HoldsCleanup(t)
      BY <1>4, <3>1, <3>2 DEF Accounts, OwnsToken, Accounted, HoldsRender, Holds
    <3>3. CASE ~HoldsRender(t) /\ ~HoldsCleanup(t)
      BY <1>4, <3>1, <3>3 DEF Accounts, OwnsToken, Accounted, HoldsRender
    <3> QED
      BY <3>2, <3>3
  <2>6. NoGhost'
    <3>1. CASE HoldsRender(t)
      <4>1. Owned(handler') = inflight[t].paint /\ Owned(handler) \subseteq inflight[t].erase
        BY <1>2, <1>4, <2>1, <3>1 DEF Accounts, OwnsToken, Accounted, Owned
      <4> QED
        BY <1>2, <2>3, <2>4, <4>1 DEF NoGhost
    <3>2. CASE ~HoldsRender(t) /\ HoldsCleanup(t)
      <4>1. /\ inflight[t].paint = {}
            /\ CellsOf(handler.detail) \subseteq inflight[t].erase
            /\ handler.pendingCleanup.scope = "MainAndDetail" =>
                 Owned(handler) \subseteq inflight[t].erase
        BY <1>2, <2>1, <3>2 DEF Accounts, OwnsToken, Accounted
      <4>2. Owned(handler) \subseteq Owned(handler') \cup inflight[t].erase
        <5>1. CASE handler.pendingCleanup.scope = "MainAndDetail"
          BY <4>1, <5>1
        <5>2. CASE handler.pendingCleanup.scope # "MainAndDetail"
          BY <1>4, <3>2, <4>1, <5>2 DEF Owned
        <5> QED
          BY <5>1, <5>2
      <4> QED
        BY <1>2, <2>3, <2>4, <4>1, <4>2 DEF NoGhost
    <3>3. CASE ~HoldsRender(t) /\ ~HoldsCleanup(t)
      <4>1. inflight[t].paint \subseteq Owned(handler') /\ handler' = handler
        BY <1>2, <1>4, <2>1, <3>3 DEF Accounts, OwnsToken, Accounted
      <4> QED
        BY <1>2, <2>3, <2>4, <4>1 DEF NoGhost
    <3> QED
      BY <3>1, <3>2, <3>3
  <2> QED
    BY <2>5, <2>6 DEF ScreenAccounted
<1> QED
  BY <1>6, <1>8, <1>10, <1>11, <1>12 DEF Ledger, ScreenAccounted, TokensOwned, Accounts

\* A stale write gives up at most a popup that owns nothing.
LEMMA DropKeepsLedger ==
  ASSUME Ledger, NEW t \in Tasks, DropStaleWrite(t)
  PROVE  Ledger'
<1> DEFINE ticket == inflight[t].ticket
<1>1. /\ TypeOK /\ TokensInOrder /\ OneCurrent
      /\ "borrowed" \notin orphaned => TokensOwned
      /\ orphaned = {} => ScreenAccounted
      /\ handler \in Handlers
  BY LedgerParts DEF TypeOK
<1>2. /\ inflight[t] # None /\ ~Current(t)
      /\ handler' = DiscardOverlayOwnership(handler, ticket)
      /\ shell' = shell /\ screen' = screen /\ blocked' = blocked
      /\ inflight' = [inflight EXCEPT ![t] = None]
      /\ orphaned' = {} => orphaned = {} /\ ~(Unacknowledged(t) /\ inflight[t].erase # {})
      /\ "borrowed" \notin orphaned' => "borrowed" \notin orphaned
      /\ orphaned' \in SUBSET {"forgotten", "borrowed", "clipped", "uncovered"}
  BY <1>1 DEF DropStaleWrite, TypeOK
<1>3. inflight[t] \in Staged /\ ticket \in [epoch: Nat, render: Nat, cleanup: Nat]
  BY <1>1, <1>2 DEF TypeOK, Option, Staged
<1>4. /\ handler' \in Handlers
      /\ handler'.renderGen = handler.renderGen /\ handler'.cleanupGen = handler.cleanupGen
      /\ HoldsCleanup(t) =>
           /\ handler'.pendingCleanup = None /\ handler'.pendingRender = handler.pendingRender
           /\ handler'.layout = handler.layout /\ handler'.detail = handler.detail
           /\ handler'.epoch = handler.epoch /\ handler'.visible = handler.visible
      /\ ~HoldsCleanup(t) /\ HoldsRender(t) =>
           /\ handler'.pendingCleanup = handler.pendingCleanup /\ handler'.pendingRender = None
           /\ handler'.layout = None /\ handler'.detail = None
           /\ handler'.epoch = handler.epoch + 1 /\ ~handler'.visible
      /\ ~HoldsCleanup(t) /\ ~HoldsRender(t) => handler' = handler
  BY <1>1, <1>2, <1>3, DiscardCases DEF HoldsRender, HoldsCleanup
<1>5. /\ inflight'[t] = None
      /\ \A u \in Tasks : u # t => inflight'[u] = inflight[u]
      /\ inflight' \in [Tasks -> Option(Staged)]
  BY <1>1, <1>2 DEF TypeOK, Option
<1>6. TypeOK'
  BY <1>1, <1>2, <1>4, <1>5 DEF TypeOK
<1>7. handler.epoch \in Nat /\ handler'.epoch \in Nat /\ handler.epoch <= handler'.epoch
  BY <1>1, <1>4 DEF Handlers
<1>8. ASSUME NEW u \in Tasks, inflight'[u] # None
      PROVE  /\ u # t /\ inflight'[u] = inflight[u]
             /\ inflight[u].ticket.epoch \in Nat
             /\ inflight[u].ticket.epoch <= handler.epoch
             /\ Current(u)' => Current(u) /\ (HoldsCleanup(t) \/ ~HoldsRender(t))
  <2>1. u # t /\ inflight'[u] = inflight[u]
    BY <1>5, <1>8
  <2>2. inflight[u].ticket.epoch \in Nat /\ inflight[u].ticket.epoch <= handler.epoch
    BY <1>1, <1>8, <2>1 DEF TypeOK, Option, Staged, TokensInOrder
  <2> QED
    BY <1>4, <1>7, <2>1, <2>2 DEF Current
<1>9. TokensInOrder'
  <2>1. handler'.pendingRender \in {handler.pendingRender, None}
        /\ handler'.pendingCleanup \in {handler.pendingCleanup, None}
        /\ (handler'.layout = None => handler'.detail = None)
    BY <1>1, <1>4 DEF TokensInOrder
  <2>2. ASSUME NEW u \in Tasks, inflight'[u] # None
        PROVE  /\ inflight'[u].ticket.epoch <= handler'.epoch
               /\ inflight'[u].ticket.render <= handler'.renderGen
               /\ inflight'[u].ticket.cleanup <= handler'.cleanupGen
    BY <1>1, <1>4, <1>7, <1>8, <2>2 DEF TokensInOrder
  <2> QED
    BY <1>1, <1>4, <2>1, <2>2 DEF TokensInOrder
<1>10. OneCurrent'
  BY <1>1, <1>8 DEF OneCurrent
<1>11. ASSUME "borrowed" \notin orphaned' PROVE TokensOwned'
  <2>1. ASSUME NEW u \in Tasks, inflight'[u] # None
        PROVE  OwnsToken(u)'
    <3>1. OwnsToken(u) /\ inflight'[u] = inflight[u]
      BY <1>1, <1>2, <1>8, <1>11, <2>1 DEF TokensOwned
    <3>2. HoldsRender(t) \/ HoldsCleanup(t) => handler'.pendingRender = None
      BY <1>1, <1>4 DEF HoldsRender, HoldsCleanup, Holds, TokensInOrder
    <3>3. CASE HoldsRender(t) \/ HoldsCleanup(t)
      BY <3>2, <3>3 DEF OwnsToken, HoldsRender, Holds
    <3>4. CASE ~HoldsRender(t) /\ ~HoldsCleanup(t)
      BY <1>4, <3>1, <3>4 DEF OwnsToken, HoldsRender, Current
    <3> QED
      BY <3>3, <3>4
  <2> QED
    BY <2>1 DEF TokensOwned
<1>12. ASSUME orphaned' = {} PROVE ScreenAccounted'
  <2>1. ScreenAccounted /\ Accounts(t) /\ ~(Unacknowledged(t) /\ inflight[t].erase # {})
    BY <1>1, <1>2, <1>12 DEF ScreenAccounted
  <2>2. Owned(handler') = Owned(handler) /\ (handler'.visible => handler.visible)
    BY <1>2, <1>4, <2>1 DEF Accounts, OwnsToken, Accounted, Owned, CellsOf
  <2>3. BeingCleared \subseteq BeingCleared'
    BY <1>2, <1>5, <2>1 DEF BeingCleared, Unacknowledged
  <2>4. NoGhost'
    BY <1>2, <2>1, <2>2, <2>3 DEF ScreenAccounted, NoGhost
  <2>5. ASSUME NEW u \in Tasks, inflight'[u] # None
        PROVE  Accounts(u)'
    <3>1. Accounts(u) /\ inflight'[u] = inflight[u]
      BY <1>8, <2>1, <2>5 DEF ScreenAccounted
    <3>2. CASE HoldsCleanup(t)
      <4>1. ~HoldsRender(u) /\ ~HoldsRender(u)' /\ ~HoldsCleanup(u)'
        BY <1>1, <1>4, <3>1, <3>2 DEF HoldsRender, HoldsCleanup, Holds, TokensInOrder
      <4>2. Current(u)' => Current(u)
        BY <1>8, <2>5
      <4> QED
        BY <2>2, <3>1, <4>1, <4>2 DEF Accounts, OwnsToken, Accounted
    <3>3. CASE ~HoldsCleanup(t) /\ HoldsRender(t)
      <4>1. ~Current(u)' /\ ~HoldsRender(u)'
        BY <1>4, <1>8, <2>5, <3>3 DEF HoldsRender, Holds
      <4> QED
        BY <4>1 DEF Accounts, OwnsToken, Accounted
    <3>4. CASE ~HoldsCleanup(t) /\ ~HoldsRender(t)
      BY <1>4, <3>1, <3>4 DEF Accounts, OwnsToken, Accounted, HoldsRender, HoldsCleanup, Current
    <3> QED
      BY <3>2, <3>3, <3>4
  <2> QED
    BY <2>4, <2>5 DEF ScreenAccounted
<1> QED
  BY <1>6, <1>9, <1>10, <1>11, <1>12 DEF Ledger, ScreenAccounted, TokensOwned, Accounts

\* The ledger holds at the start.
LEMMA InitLedger ==
  ASSUME Init
  PROVE  Ledger
<1>1. InitialHandler \in Handlers
  BY DEF InitialHandler, Handlers, Option, Feedbacks
<1>2. TypeOK
  BY <1>1 DEF Init, TypeOK, Option
<1>3. TokensInOrder /\ OneCurrent
  BY DEF Init, InitialHandler, TokensInOrder, OneCurrent
<1>4. ScreenAccounted /\ TokensOwned
  BY DEF Init, ScreenAccounted, TokensOwned, NoGhost
<1> QED
  BY <1>2, <1>3, <1>4, LedgerParts

\* Every action keeps the ledger.
LEMMA NextKeepsLedger ==
  ASSUME Ledger, [Next]_vars
  PROVE  Ledger'
<1>1. /\ handler \in Handlers /\ blocked \in BOOLEAN
      /\ handler \in Meeker(handler) /\ handler \in Kin(handler)
  BY KinOfKin DEF Ledger, TypeOK, Kin, SameAccounts
<1>2. CASE NavigateKey
  <2>1. PICK out \in Renders(handler) : Stage("stdin", out)
    BY <1>2 DEF NavigateKey
  <2> QED
    BY <1>1, <1>2, <2>1, RendersStage, StageKeepsLedger DEF NavigateKey
<1>3. CASE DismissKey
  BY <1>1, <1>3, TeardownAccountable, StageKeepsLedger DEF DismissKey
<1>4. CASE AcceptDirectory
  <2>1. PICK out \in Renders(Shown(handler)) : Stage("stdin", out)
    BY <1>4 DEF AcceptDirectory
  <2>2. Shown(handler) \in Kin(handler)
    BY <1>1, Contents DEF Feedbacks
  <2> QED
    BY <1>1, <1>4, <2>1, <2>2, RendersStage, StageKeepsLedger DEF AcceptDirectory
<1>5. CASE TriggerKey
  BY <1>1, <1>5, TriggersAccountable, StageKeepsLedger DEF TriggerKey
<1>6. CASE ReportTrigger
  BY <1>1, <1>6, TriggersAccountable, StageKeepsLedger DEF ReportTrigger
<1>7. CASE ReadShellOutput
  BY <1>7, ReadKeepsLedger
<1>8. CASE WriteShellOutput
  BY <1>8, WriteShellKeepsLedger
<1>9. CASE \E t \in {"merge", "pty"} : TryMergeDynamic(t)
  <2>1. PICK t \in {"merge", "pty"} : TryMergeDynamic(t)
    BY <1>9
  <2> QED
    BY <1>1, <2>1, MergesAccountable, StageKeepsLedger DEF TryMergeDynamic
<1>10. CASE DebounceTrigger
  <2>1. CASE \E out \in Triggers(handler) : Stage("debounce", out) /\ UNCHANGED blocked
    BY <1>1, <1>10, <2>1, TriggersAccountable, StageKeepsLedger DEF DebounceTrigger
  <2>2. CASE /\ \E out \in Spawned(handler) : Stage("debounce", [out EXCEPT !.h.rx = FALSE])
             /\ blocked' = TRUE
    <3>1. PICK out \in Spawned(handler) : Stage("debounce", [out EXCEPT !.h.rx = FALSE])
      BY <2>2
    <3>2. Accountable(handler, out)
      BY <1>1, SpawnedAccountable
    <3>3. out \in Outs /\ out.h \in Handlers
      BY <3>2 DEF Accountable, Outs
    <3> DEFINE g == [out.h EXCEPT !.rx = FALSE]
    <3>4. g \in Meeker(out.h)
      BY <3>3, Contents DEF Feedbacks
    <3>5. [out EXCEPT !.h.rx = FALSE] = [out EXCEPT !.h = g]
      BY <3>3 DEF Outs
    <3> HIDE DEF g
    <3>6. Accountable(handler, [out EXCEPT !.h = g])
      BY <1>1, <3>2, <3>4, AfterwardsMeeker
    <3> QED
      BY <1>10, <2>2, <3>1, <3>5, <3>6, StageKeepsLedger DEF DebounceTrigger
  <2> QED
    BY <1>10, <2>1, <2>2 DEF DebounceTrigger
<1>11. CASE ApplyBlockResult
  BY <1>1, <1>11, BlockResultsAccountable, StageKeepsLedger DEF ApplyBlockResult
<1>12. CASE AbandonBlock
  <2>1. Idle(handler) \in Meeker(handler)
    BY <1>1, Contents DEF Feedbacks
  <2> QED
    BY <1>1, <1>12, <2>1, QuietEmits, StageKeepsLedger DEF AbandonBlock
<1>13. CASE RenderForDetailRedraw
  <2>1. PICK out \in Renders(handler) : Stage("detail", out)
    BY <1>13 DEF RenderForDetailRedraw
  <2> QED
    BY <1>1, <1>13, <2>1, RendersStage, StageKeepsLedger DEF RenderForDetailRedraw
<1>14. CASE TickFeedback
  <2>1. CASE handler.layout # None /\ Stage("feedback", RenderIndicatorOnly(handler))
    BY <1>1, <1>14, <2>1, IndicatorAccountable, StageKeepsLedger DEF TickFeedback
  <2>2. CASE Stage("feedback", ClearExpiredFeedback(handler))
    BY <1>1, <1>14, <2>2, ClearExpiredAccountable, StageKeepsLedger DEF TickFeedback
  <2> QED
    BY <1>14, <2>1, <2>2 DEF TickFeedback
<1>15. CASE ReloadConfig
  BY <1>1, <1>15, UpdateConfigAccountable, StageKeepsLedger DEF ReloadConfig
<1>16. CASE HandleResize
  BY <1>1, <1>16, DismissAccountable, StageKeepsLedger DEF HandleResize
<1>17. CASE \E t \in Tasks : WriteOverlay(t) \/ DropStaleWrite(t)
  BY <1>17, WriteKeepsLedger, DropKeepsLedger
<1>18. CASE UNCHANGED vars
  BY <1>18 DEF vars, Ledger, TypeOK, TokensInOrder, OneCurrent, NoGhost, BeingCleared,
    Unacknowledged, OwnsToken, Accounted, HoldsRender, HoldsCleanup, Current
<1> QED
  BY <1>2, <1>3, <1>4, <1>5, <1>6, <1>7, <1>8, <1>9, <1>10, <1>11, <1>12, <1>13,
     <1>14, <1>15, <1>16, <1>17, <1>18 DEF Next

-----------------------------------------------------------------------------
(* The theorems.                                                           *)

\* The ledger holds throughout: tokens are handed out in order, at most one
\* buffer in flight is current, and each buffer accounts for its cells
\* (overlay_write_ticket, write_overlay_if_current).
THEOREM LedgerHolds == Spec => []Ledger
<1>1. Init => Ledger
  BY InitLedger
<1>2. Ledger /\ [Next]_vars => Ledger'
  BY NextKeepsLedger
<1> QED
  BY <1>1, <1>2, PTL DEF Spec

\* The handler, the bytes in flight and the screen stay in their types.
THEOREM TypeCorrect == Spec => []TypeOK
<1>1. Ledger => TypeOK
  BY DEF Ledger
<1> QED
  BY <1>1, LedgerHolds, PTL

\* However renders, teardowns, ticks, reloads and shell output interleave, a
\* cell still shows overlay bytes only while somebody will clear it, unless
\* ownership was lost in one of the four ways the history names.
THEOREM NoGhostRemains == Spec => []GhostFree
<1>1. Ledger => GhostFree
  BY DEF Ledger, GhostFree
<1> QED
  BY <1>1, LedgerHolds, PTL

\* commit_overlay_write commits a layout only for the bytes that painted it,
\* as long as no ticket has borrowed a token.
THEOREM LayoutsAcknowledged == Spec => AcknowledgesUnlessBorrowed
<1>1. ASSUME Ledger, [Next]_vars, "borrowed" \notin orphaned, NEW t \in Tasks
      PROVE  CommitsOwnBytes(t)
  <2>1. SUFFICES ASSUME WriteOverlay(t), handler'.layout \notin {handler.layout, None}
                 PROVE  CellsOf(handler'.layout) \cup CellsOf(handler'.detail)
                          = inflight[t].paint
    BY DEF CommitsOwnBytes
  <2>2. /\ handler \in Handlers /\ inflight[t] # None /\ Current(t)
        /\ handler.pendingRender = None \/ handler.pendingCleanup = None
        /\ inflight[t].ticket \in [epoch: Nat, render: Nat, cleanup: Nat]
        /\ handler' = CommitOverlayWrite(handler, inflight[t].ticket)
        /\ OwnsToken(t)
    BY <1>1, <2>1 DEF Ledger, TypeOK, TokensInOrder, WriteOverlay, Option, Staged
  <2>3. /\ HoldsRender(t)
        /\ handler'.layout = handler.pendingRender.layout
        /\ handler'.detail = handler.pendingRender.detail
    BY <2>1, <2>2, CommitCases DEF HoldsRender
  <2> QED
    BY <2>2, <2>3 DEF OwnsToken
<1>2. Ledger /\ [Next]_vars => ["borrowed" \notin orphaned => \A t \in Tasks : CommitsOwnBytes(t)]_vars
  BY <1>1
<1> QED
  BY <1>2, LedgerHolds, PTL DEF Spec, AcknowledgesUnlessBorrowed

\* A render that lost its race gives up nothing the user can see, as long
\* as no ticket has borrowed a token.
THEOREM StaleDropsAreQuiet == Spec => StaleDropQuietUnlessBorrowed
<1>1. ASSUME Ledger, NEW t \in Tasks, DropStaleWrite(t), "borrowed" \notin orphaned
      PROVE  handler'.visible = handler.visible /\ Owned(handler') = Owned(handler)
  <2>1. /\ handler \in Handlers /\ inflight[t] # None /\ ~Current(t)
        /\ inflight[t].ticket \in [epoch: Nat, render: Nat, cleanup: Nat]
        /\ handler' = DiscardOverlayOwnership(handler, inflight[t].ticket)
    BY <1>1 DEF Ledger, TypeOK, DropStaleWrite, Option, Staged
  <2>2. OwnsToken(t)
    BY <1>1, <2>1 DEF Ledger
  <2>3. HoldsRender(t) => Owned(handler) = {} /\ ~handler.visible
    BY <2>1, <2>2 DEF OwnsToken
  <2> DEFINE k == DiscardOverlayOwnership(handler, inflight[t].ticket)
  <2>4. k \in Handlers /\ k.visible \in BOOLEAN /\ handler.visible \in BOOLEAN
    BY <2>1, DiscardCases DEF Handlers
  <2>5. \/ k.layout = handler.layout /\ k.detail = handler.detail /\ k.visible = handler.visible
        \/ HoldsRender(t) /\ k.layout = None /\ k.detail = None /\ ~k.visible
    BY <2>1, DiscardCases DEF HoldsRender
  <2> HIDE DEF k
  <2>6. Owned(k) = Owned(handler)
    BY <2>3, <2>5 DEF Owned, CellsOf
  <2>7. k.visible = handler.visible
    BY <2>3, <2>4, <2>5
  <2> QED
    BY <2>1, <2>6, <2>7 DEF k
<1>2. Ledger /\ [Next]_vars =>
        [\A t \in Tasks : DropStaleWrite(t) /\ "borrowed" \notin orphaned =>
           /\ handler'.visible = handler.visible
           /\ Owned(handler') = Owned(handler)]_vars
  BY <1>1
<1> QED
  BY <1>2, LedgerHolds, PTL DEF Spec, StaleDropQuietUnlessBorrowed
=============================================================================
