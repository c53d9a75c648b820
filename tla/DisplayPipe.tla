---------------------------- MODULE DisplayPipe ----------------------------
(***************************************************************************)
(* The display pipe (hw/display/apple_displaypipe_v4.c): a write of RUN    *)
(* copies a frame of guest memory into the pipe's buffer at once; a bottom *)
(* half, scheduled by whatever register write finds something dirty, later *)
(* draws the buffers that the blend unit selects.  The screen is a column  *)
(* of bands of which a frame covers the first ones; what a band shows is   *)
(* the sequence of frames drawn over each other.                           *)
(***************************************************************************)
EXTENDS Naturals, Sequences

CONSTANTS
  Bands,         \* number of bands of the screen
  MaxFrames,     \* bound: frames the guest runs
  MaxBlends,     \* bound: writes to the blend unit
  MaxDispResets  \* bound: machine resets

ASSUME DisplayAssumption ==
  {Bands, MaxFrames, MaxBlends, MaxDispResets} \subseteq Nat /\ Bands > 0

VARIABLES
  disp,   \* the pipes, the blend unit, the bottom half, the screen, the interrupt
  dguest, \* the guest: per pipe the frame it ran last and whether it is reprogramming it
  druns   \* how much of each bound is used up

dispvars == <<disp, dguest, druns>>

Pipe == {0, 1}
NoFrame == 0
BlendMode == {"none", "bypass", "blend"}

\* adp_v4_gp_reset, adp_v4_blend_reset
ResetPipe == [size |-> 0, buf |-> NoFrame, dirty |-> FALSE]
ResetLayer == [pipe |-> 0, mode |-> "none"]

-----------------------------------------------------------------------------
(* Register writes. *)

\* A fault: only the blend unit counts.
UpdateDispImage_BlendOnly(D) == IF D.bdirty THEN [D EXCEPT !.bh = TRUE] ELSE D

\* adp_v4_update_disp_image, at the end of every write to a pipe or the blend unit
UpdateDispImage(D) ==
  IF D.bdirty \/ \E p \in Pipe : D.gp[p].dirty THEN [D EXCEPT !.bh = TRUE] ELSE D

\* adp_v4_gp_reg_write of BASE, END, STRIDE, SIZE and FRAME_SIZE
WriteGeometry(D, p, n) == UpdateDispImage([D EXCEPT !.gp[p].size = n])

\* adp_v4_gp_read of frame f: a compressed frame and one without a size are
\* dropped, a DMA that fails leaves no buffer.
GpRead(G, f, how) ==
  IF how = "compressed" \/ G.size = 0 THEN G
  ELSE [G EXCEPT !.buf = IF how = "dma_error" THEN NoFrame ELSE f]

\* adp_v4_gp_reg_write of CONFIG_CONTROL with RUN
WriteRun(D, p, f, how) ==
  UpdateDispImage([D EXCEPT !.gp[p] = [GpRead(@, f, how) EXCEPT !.dirty = TRUE]])

\* adp_v4_blend_reg_write
WriteLayer(D, l, L) == UpdateDispImage([D EXCEPT !.layer[l] = L, !.bdirty = TRUE])

-----------------------------------------------------------------------------
(* adp_v4_update_disp_image_bh *)

\* One layer alone is copied over the bands it covers; the others keep what they show.
DrawOne(D, p) ==
  LET G == D.gp[p]
  IN IF G.size # 0 /\ G.buf = NoFrame THEN [D EXCEPT !.aborted = TRUE]
     ELSE [D EXCEPT !.screen = [b \in 1..Bands |-> IF b <= G.size THEN <<G.buf>> ELSE @[b]],
                    !.gp[p].dirty = FALSE, !.bdirty = FALSE]

\* Two layers are drawn over each other on a black screen.
DrawBoth(D, p, q) ==
  IF p = q \/ D.gp[p].buf = NoFrame \/ D.gp[q].buf = NoFrame THEN [D EXCEPT !.aborted = TRUE]
  ELSE [D EXCEPT !.screen =
          [b \in 1..Bands |-> (IF b <= D.gp[p].size THEN <<D.gp[p].buf>> ELSE <<>>)
                                \o (IF b <= D.gp[q].size THEN <<D.gp[q].buf>> ELSE <<>>)],
        !.gp = [@ EXCEPT ![p].dirty = FALSE, ![q].dirty = FALSE], !.bdirty = FALSE]

Draw(D) ==
  LET L0 == D.layer[0]
      L1 == D.layer[1]
  IN IF L0.mode = "none" /\ L1.mode = "none" THEN D
     ELSE IF D.gp[L0.pipe].size = 0 /\ D.gp[L1.pipe].size = 0 THEN D
     ELSE IF L1.mode = "bypass" \/ (L1.mode # "none" /\ L0.mode = "none") THEN DrawOne(D, L1.pipe)
     ELSE IF L0.mode = "bypass" \/ L1.mode = "none" THEN DrawOne(D, L0.pipe)
     ELSE DrawBoth(D, L0.pipe, L1.pipe)

UpdateDispImageBh ==
  /\ disp.bh
  /\ disp' = Draw([disp EXCEPT !.bh = FALSE])
  /\ UNCHANGED <<dguest, druns>>

\* adp_v4_gfx_update, on the console's timer
GfxUpdate ==
  /\ ~disp.vblank
  /\ disp' = [disp EXCEPT !.vblank = TRUE]
  /\ UNCHANGED <<dguest, druns>>

-----------------------------------------------------------------------------
(* The guest programs a pipe, runs it, and acknowledges the interrupt      *)
(* whenever it comes; it may change the blend unit in between.             *)

GuestProgram(p, n) ==
  /\ ~dguest[p].mid /\ druns.frames < MaxFrames
  /\ disp' = WriteGeometry(disp, p, n)
  /\ dguest' = [dguest EXCEPT ![p].mid = TRUE]
  /\ UNCHANGED druns

GuestRun(p, how) ==
  /\ dguest[p].mid
  /\ disp' = WriteRun(disp, p, druns.frames + 1, how)
  /\ dguest' = [dguest EXCEPT ![p] = [mid |-> FALSE, frame |-> IF how = "ok" THEN druns.frames + 1 ELSE NoFrame]]
  /\ druns' = [druns EXCEPT !.frames = @ + 1]

GuestBlend(l, L) ==
  /\ druns.blends < MaxBlends
  /\ disp' = WriteLayer(disp, l, L)
  /\ druns' = [druns EXCEPT !.blends = @ + 1]
  /\ UNCHANGED dguest

GuestAck ==
  /\ disp.vblank
  /\ disp' = [disp EXCEPT !.vblank = FALSE]
  /\ UNCHANGED <<dguest, druns>>

IdleGuest == [p \in Pipe |-> [mid |-> FALSE, frame |-> NoFrame]]

\* adp_v4_reset_hold; a scheduled bottom half stays.
ResetDisplay(D) ==
  [gp |-> [p \in Pipe |-> ResetPipe], layer |-> [l \in {0, 1} |-> ResetLayer],
   bdirty |-> FALSE, bh |-> D.bh, screen |-> [b \in 1..Bands |-> <<>>],
   vblank |-> FALSE, aborted |-> FALSE]

DispMachineReset ==
  /\ druns.resets < MaxDispResets
  /\ disp' = ResetDisplay(disp)
  /\ dguest' = IdleGuest
  /\ druns' = [druns EXCEPT !.resets = @ + 1]

-----------------------------------------------------------------------------

DispInit ==
  /\ disp = ResetDisplay([bh |-> FALSE])
  /\ dguest = IdleGuest
  /\ druns = [frames |-> 0, blends |-> 0, resets |-> 0]

DispNext ==
  /\ ~disp.aborted
  /\ \/ UpdateDispImageBh \/ GfxUpdate \/ GuestAck \/ DispMachineReset
     \/ \E p \in Pipe : \/ \E n \in 1..Bands : GuestProgram(p, n)
                        \/ \E how \in {"ok", "compressed", "dma_error"} : GuestRun(p, how)
     \/ \E l \in {0, 1}, L \in [pipe : Pipe, mode : BlendMode] : GuestBlend(l, L)

DispSpec == DispInit /\ [][DispNext]_dispvars

-----------------------------------------------------------------------------

\* The layers on show: one that bypasses hides the other, the upper one first.
LayersOn ==
  LET bypass == {l \in {0, 1} : disp.layer[l].mode = "bypass"}
  IN IF bypass # {} THEN {IF 1 \in bypass THEN 1 ELSE 0}
     ELSE {l \in {0, 1} : disp.layer[l].mode # "none"}

PipesOn == {disp.layer[l].pipe : l \in LayersOn}

\* The frame that layer l puts on band b.
Cover(l, b) ==
  IF l \in LayersOn /\ b <= disp.gp[disp.layer[l].pipe].size
  THEN <<dguest[disp.layer[l].pipe].frame>> ELSE <<>>

\* The screen is never left behind the guest: when no bottom half is scheduled, and
\* the pipes on show hold frames that the guest is not replacing, every band that
\* one of them covers shows the frames run last, the upper layer over the lower
\* one (adp_v4_update_disp_image schedules, adp_v4_update_disp_image_bh clears what
\* it has drawn and no more).
ScreenCurrent ==
  (~disp.bh /\ ~disp.aborted /\ \A p \in PipesOn : ~dguest[p].mid /\ dguest[p].frame # NoFrame) =>
    \A b \in 1..Bands : Cover(0, b) \o Cover(1, b) # <<>> =>
      disp.screen[b] = Cover(0, b) \o Cover(1, b)
=============================================================================
