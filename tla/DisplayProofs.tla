--------------------------- MODULE DisplayProofs ---------------------------
(***************************************************************************)
(* Proofs about the display pipe (hw/display/apple_displaypipe_v4.c), for  *)
(* every height of the screen and every number of frames: when no redraw is*)
(* pending, the screen shows what the guest programmed.                    *)
(*                                                                         *)
(* The redraw is a bottom half that any register write may schedule and that*)
(* clears the dirty marks; the invariant that carries the proof says that a*)
(* pipe the guest is not reprogramming holds the frame it ran last.        *)
(***************************************************************************)
EXTENDS DisplayPipe, TLAPS

\* The states of a pipe, of a layer of the blend unit, and of the display.
PipeState == [size : 0 .. Bands, buf : Nat, dirty : BOOLEAN]
Layer == [pipe : Pipe, mode : BlendMode]
Display ==
  [gp : [Pipe -> PipeState], layer : [{0, 1} -> Layer], bdirty : BOOLEAN, bh : BOOLEAN,
   screen : [1 .. Bands -> Seq(Nat)], vblank : BOOLEAN, aborted : BOOLEAN]

DispTypeOK ==
  /\ disp \in Display
  /\ dguest \in [Pipe -> [mid : BOOLEAN, frame : Nat]]
  /\ druns \in [frames : Nat, blends : Nat, resets : Nat]

\* A pipe that the guest is not reprogramming holds the frame that the guest ran last, and
\* it has a size from the moment the guest programs it.
PipeHolds ==
  \A p \in Pipe :
    /\ dguest[p].mid => disp.gp[p].size # 0
    /\ ~dguest[p].mid /\ dguest[p].frame # NoFrame =>
         disp.gp[p].size # 0 /\ disp.gp[p].buf = dguest[p].frame

DispInv == DispTypeOK /\ PipeHolds /\ ScreenCurrent

-----------------------------------------------------------------------------
\* What adp_v4_update_disp_image leaves alone, and when it schedules.
LEMMA ScheduleFacts ==
  ASSUME NEW D \in Display
  PROVE  LET U == UpdateDispImage(D)
         IN  /\ U \in Display
             /\ U.gp = D.gp /\ U.layer = D.layer /\ U.screen = D.screen
             /\ U.aborted = D.aborted
             /\ ~U.bh => ~D.bh /\ ~D.bdirty /\ \A p \in Pipe : ~D.gp[p].dirty
  <1>1. CASE D.bdirty \/ \E p \in Pipe : D.gp[p].dirty
    <2>1. UpdateDispImage(D) = [D EXCEPT !.bh = TRUE] BY <1>1 DEF UpdateDispImage
    <2> QED BY <2>1 DEF Display
  <1>2. CASE ~ (D.bdirty \/ \E p \in Pipe : D.gp[p].dirty)
    <2>1. UpdateDispImage(D) = D BY <1>2 DEF UpdateDispImage
    <2> QED BY <1>2, <2>1
  <1> QED BY <1>1, <1>2

\* Steps that draw nothing, change no layer, and change a pipe only while the guest
\* reprograms it.
LEMMA ScreenFrame ==
  ASSUME DispTypeOK, ScreenCurrent, ~disp.aborted,
         disp'.layer = disp.layer, disp'.screen = disp.screen, ~disp'.bh => ~disp.bh,
         \A q \in Pipe : ~dguest'[q].mid =>
           disp'.gp[q].size = disp.gp[q].size /\ dguest'[q] = dguest[q]
  PROVE  ScreenCurrent'
  <1>1. LayersOn' = LayersOn /\ PipesOn' = PipesOn BY DEF LayersOn, PipesOn
  <1>2. PipesOn \subseteq Pipe
    <2>1. disp.layer \in [{0, 1} -> Layer] BY DEF DispTypeOK, Display
    <2> QED BY <2>1 DEF PipesOn, LayersOn, Layer
  <1>3. SUFFICES ASSUME ~disp'.bh,
                        \A p \in PipesOn : ~dguest'[p].mid /\ dguest'[p].frame # NoFrame,
                        NEW b \in 1 .. Bands,
                        (Cover(0, b) \o Cover(1, b) # <<>>)'
                 PROVE  disp'.screen[b] = (Cover(0, b) \o Cover(1, b))'
    BY <1>1, Zenon DEF ScreenCurrent
  <1>4. \A p \in PipesOn : disp'.gp[p].size = disp.gp[p].size /\ dguest'[p] = dguest[p]
    BY <1>2, <1>3
  <1>5. \A p \in PipesOn : ~dguest[p].mid /\ dguest[p].frame # NoFrame BY <1>3, <1>4
  <1>6. ASSUME NEW l \in {0, 1} PROVE Cover(l, b)' = Cover(l, b)
    <2>1. CASE l \in LayersOn
      <3>1. disp.layer[l].pipe \in PipesOn BY <2>1 DEF PipesOn
      <3>2. disp'.layer[l].pipe = disp.layer[l].pipe OBVIOUS
      <3> QED BY <1>1, <1>4, <2>1, <3>1, <3>2 DEF Cover
    <2>2. CASE l \notin LayersOn BY <1>1, <2>2 DEF Cover
    <2> QED BY <2>1, <2>2
  <1>7. Cover(0, b)' = Cover(0, b) /\ Cover(1, b)' = Cover(1, b) BY <1>6
  <1>8. Cover(0, b) \o Cover(1, b) # <<>> BY <1>3, <1>7
  <1>9. disp.screen[b] = Cover(0, b) \o Cover(1, b)
    BY <1>3, <1>5, <1>8, Zenon DEF ScreenCurrent
  <1> QED BY <1>7, <1>9

\* The display as it comes out of its first reset.
LEMMA DispInitInv == DispInit => DispInv
  <1> SUFFICES ASSUME DispInit PROVE DispInv OBVIOUS
  <1>1. /\ disp.gp = [p \in Pipe |-> ResetPipe] /\ disp.layer = [l \in {0, 1} |-> ResetLayer]
        /\ dguest = IdleGuest
    BY DEF DispInit, ResetDisplay
  <1>2. DispTypeOK
    <2>1. disp \in Display
      <3>1. [b \in 1 .. Bands |-> <<>>] \in [1 .. Bands -> Seq(Nat)] OBVIOUS
      <3>2. [p \in Pipe |-> ResetPipe] \in [Pipe -> PipeState]
        BY DisplayAssumption DEF ResetPipe, PipeState, NoFrame
      <3>3. [l \in {0, 1} |-> ResetLayer] \in [{0, 1} -> Layer]
        BY DEF ResetLayer, Layer, Pipe, BlendMode
      <3> QED BY <3>1, <3>2, <3>3 DEF DispInit, ResetDisplay, Display
    <2> QED BY <2>1 DEF DispInit, DispTypeOK, IdleGuest, NoFrame
  <1>3. PipeHolds BY <1>1 DEF PipeHolds, IdleGuest
  <1>4. ScreenCurrent
    <2>1. LayersOn = {} BY <1>1 DEF LayersOn, ResetLayer
    <2>2. \A b \in 1 .. Bands : Cover(0, b) = <<>> /\ Cover(1, b) = <<>> BY <2>1 DEF Cover
    <2> QED BY <2>2 DEF ScreenCurrent
  <1> QED BY <1>2, <1>3, <1>4 DEF DispInv

\* A machine reset forgets the layers, so that nothing is owed to the screen.
LEMMA DispResetStep == ASSUME DispInv, DispMachineReset PROVE DispInv'
  <1>1. /\ disp'.gp = [p \in Pipe |-> ResetPipe] /\ disp'.layer = [l \in {0, 1} |-> ResetLayer]
        /\ dguest' = IdleGuest
    BY DEF DispMachineReset, ResetDisplay
  <1>2. DispTypeOK'
    <2>1. disp' \in Display
      <3>1. [b \in 1 .. Bands |-> <<>>] \in [1 .. Bands -> Seq(Nat)] OBVIOUS
      <3>2. [p \in Pipe |-> ResetPipe] \in [Pipe -> PipeState]
        BY DisplayAssumption DEF ResetPipe, PipeState, NoFrame
      <3>3. [l \in {0, 1} |-> ResetLayer] \in [{0, 1} -> Layer]
        BY DEF ResetLayer, Layer, Pipe, BlendMode
      <3>4. disp.bh \in BOOLEAN BY DEF DispInv, DispTypeOK, Display
      <3> QED BY <3>1, <3>2, <3>3, <3>4 DEF DispMachineReset, ResetDisplay, Display
    <2>2. druns' \in [frames : Nat, blends : Nat, resets : Nat]
      BY DEF DispInv, DispTypeOK, DispMachineReset
    <2> QED BY <1>1, <2>1, <2>2 DEF DispTypeOK, IdleGuest, NoFrame
  <1>3. PipeHolds' BY <1>1 DEF PipeHolds, IdleGuest
  <1>4. ScreenCurrent'
    <2>1. LayersOn' = {} BY <1>1 DEF LayersOn, ResetLayer
    <2>2. \A b \in 1 .. Bands : Cover(0, b)' = <<>> /\ Cover(1, b)' = <<>> BY <2>1 DEF Cover
    <2> QED BY <2>2 DEF ScreenCurrent
  <1> QED BY <1>2, <1>3, <1>4 DEF DispInv

\* The vertical blank and its acknowledgement draw nothing.
LEMMA VblankStep == ASSUME DispInv, ~disp.aborted, GfxUpdate \/ GuestAck PROVE DispInv'
  <1>t. DispTypeOK /\ PipeHolds /\ ScreenCurrent BY DEF DispInv
  <1>d. disp \in Display BY <1>t DEF DispTypeOK
  <1>u. UNCHANGED <<dguest, druns>> BY DEF GfxUpdate, GuestAck
  <1>1. /\ disp' \in Display
        /\ disp'.gp = disp.gp /\ disp'.layer = disp.layer /\ disp'.screen = disp.screen
        /\ disp'.bh = disp.bh
    <2>1. CASE disp' = [disp EXCEPT !.vblank = TRUE] BY <1>d, <2>1 DEF Display
    <2>2. CASE disp' = [disp EXCEPT !.vblank = FALSE] BY <1>d, <2>2 DEF Display
    <2> QED BY <2>1, <2>2 DEF GfxUpdate, GuestAck
  <1>2. DispTypeOK' BY <1>t, <1>u, <1>1 DEF DispTypeOK
  <1>3. PipeHolds' BY <1>t, <1>u, <1>1 DEF PipeHolds
  <1>4. ScreenCurrent' BY <1>t, <1>u, <1>1, ScreenFrame
  <1> QED BY <1>2, <1>3, <1>4 DEF DispInv

\* A register write that gives a pipe its size: the pipe is being reprogrammed.
LEMMA ProgramStep ==
  ASSUME DispInv, ~disp.aborted, NEW p \in Pipe, NEW n \in 1 .. Bands, GuestProgram(p, n)
  PROVE  DispInv'
  <1>t. DispTypeOK /\ PipeHolds /\ ScreenCurrent BY DEF DispInv
  <1>d. disp \in Display /\ dguest \in [Pipe -> [mid : BOOLEAN, frame : Nat]]
    BY <1>t DEF DispTypeOK
  <1> DEFINE D == [disp EXCEPT !.gp[p].size = n]
  <1>1. D \in Display
    <2>1. n \in 0 .. Bands BY DisplayAssumption
    <2>2. disp.gp \in [Pipe -> PipeState] BY <1>d DEF Display
    <2>3. [disp.gp EXCEPT ![p].size = n] \in [Pipe -> PipeState] BY <2>1, <2>2 DEF PipeState
    <2>4. D = [disp EXCEPT !.gp = [disp.gp EXCEPT ![p].size = n]] BY <1>d DEF Display
    <2> QED BY <1>d, <2>3, <2>4 DEF Display
  <1>2. /\ D.layer = disp.layer /\ D.screen = disp.screen /\ D.bh = disp.bh
        /\ D.gp[p].size = n /\ \A q \in Pipe : q # p => D.gp[q] = disp.gp[q]
    BY <1>d DEF Display, PipeState
  <1>3. disp' = UpdateDispImage(D) BY DEF GuestProgram, WriteGeometry
  <1> HIDE DEF D
  <1>4. /\ disp' \in Display
        /\ disp'.layer = disp.layer /\ disp'.screen = disp.screen
        /\ ~disp'.bh => ~disp.bh
        /\ disp'.gp[p].size = n /\ \A q \in Pipe : q # p => disp'.gp[q] = disp.gp[q]
    BY <1>1, <1>2, <1>3, ScheduleFacts
  <1>5. /\ dguest' \in [Pipe -> [mid : BOOLEAN, frame : Nat]]
        /\ dguest'[p].mid /\ \A q \in Pipe : q # p => dguest'[q] = dguest[q]
    BY <1>d DEF GuestProgram
  <1>6. DispTypeOK' BY <1>t, <1>4, <1>5 DEF DispTypeOK, GuestProgram
  <1>7. PipeHolds'
    <2>1. n # 0 BY DisplayAssumption
    <2>2. ASSUME NEW q \in Pipe
          PROVE  /\ dguest'[q].mid => disp'.gp[q].size # 0
                 /\ ~dguest'[q].mid /\ dguest'[q].frame # NoFrame =>
                      disp'.gp[q].size # 0 /\ disp'.gp[q].buf = dguest'[q].frame
      <3>1. CASE q = p BY <1>4, <1>5, <2>1, <3>1
      <3>2. CASE q # p BY <1>t, <1>4, <1>5, <3>2 DEF PipeHolds
      <3> QED BY <3>1, <3>2
    <2> QED BY <2>2 DEF PipeHolds
  <1>8. \A q \in Pipe : ~dguest'[q].mid =>
          disp'.gp[q].size = disp.gp[q].size /\ dguest'[q] = dguest[q]
    BY <1>4, <1>5
  <1>9. ScreenCurrent' BY <1>t, <1>4, <1>8, ScreenFrame
  <1> QED BY <1>6, <1>7, <1>9 DEF DispInv

\* GP_CONFIG_CONTROL_RUN: the pipe takes the frame, keeps the old one when the new one is
\* compressed, or is left without one when the DMA fails; the redraw is scheduled.
LEMMA RunStep ==
  ASSUME DispInv, NEW p \in Pipe, NEW how \in {"ok", "compressed", "dma_error"},
         GuestRun(p, how)
  PROVE  DispInv'
  <1>t. DispTypeOK /\ PipeHolds BY DEF DispInv
  <1>d. disp \in Display /\ dguest \in [Pipe -> [mid : BOOLEAN, frame : Nat]]
    BY <1>t DEF DispTypeOK
  <1>f. druns \in [frames : Nat, blends : Nat, resets : Nat] BY <1>t DEF DispTypeOK
  <1> DEFINE f == druns.frames + 1
             G == [GpRead(disp.gp[p], f, how) EXCEPT !.dirty = TRUE]
             D == [disp EXCEPT !.gp[p] = G]
  <1>n. f \in Nat BY <1>f
  <1>s. dguest[p].mid /\ disp.gp[p].size # 0 BY <1>t DEF GuestRun, PipeHolds
  <1>u. /\ disp' = UpdateDispImage(D)
        /\ dguest' = [dguest EXCEPT ![p] = [mid |-> FALSE,
                                           frame |-> IF how = "ok" THEN f ELSE NoFrame]]
        /\ druns' = [druns EXCEPT !.frames = @ + 1]
    BY DEF GuestRun, WriteRun
  <1>p. disp.gp[p] \in PipeState BY <1>d DEF Display
  <1> HIDE DEF f
  <1>1. G \in PipeState /\ G.dirty /\ G.size = disp.gp[p].size /\ (how = "ok" => G.buf = f)
    <2> DEFINE H == GpRead(disp.gp[p], f, how)
    <2>1. H \in PipeState /\ H.size = disp.gp[p].size /\ (how = "ok" => H.buf = f)
      <3>1. CASE how = "ok" BY <1>n, <1>p, <1>s, <3>1 DEF GpRead, PipeState
      <3>2. CASE how = "compressed" BY <1>p, <3>2 DEF GpRead
      <3>3. CASE how = "dma_error" BY <1>p, <1>s, <3>3 DEF GpRead, PipeState, NoFrame
      <3> QED BY <3>1, <3>2, <3>3
    <2> HIDE DEF H
    <2>2. G = [H EXCEPT !.dirty = TRUE] BY DEF H
    <2> QED BY <2>1, <2>2 DEF PipeState
  <1> HIDE DEF G
  <1>2. D \in Display /\ D.gp[p] = G /\ \A q \in Pipe : q # p => D.gp[q] = disp.gp[q]
    BY <1>d, <1>1 DEF Display
  <1> HIDE DEF D
  <1>3. disp' \in Display /\ disp'.gp = D.gp /\ (~disp'.bh => ~D.gp[p].dirty)
    BY <1>u, <1>2, ScheduleFacts
  <1>4. disp'.bh BY <1>1, <1>2, <1>3
  <1>5. /\ dguest' \in [Pipe -> [mid : BOOLEAN, frame : Nat]]
        /\ ~dguest'[p].mid /\ dguest'[p].frame = (IF how = "ok" THEN f ELSE NoFrame)
        /\ \A q \in Pipe : q # p => dguest'[q] = dguest[q]
    <2>1. (IF how = "ok" THEN f ELSE NoFrame) \in Nat BY <1>n DEF NoFrame
    <2> QED BY <1>d, <1>u, <2>1
  <1>6. DispTypeOK'
    <2>1. druns' \in [frames : Nat, blends : Nat, resets : Nat] BY <1>f, <1>u
    <2> QED BY <1>3, <1>5, <2>1 DEF DispTypeOK
  <1>7. PipeHolds'
    <2>1. ASSUME NEW q \in Pipe
          PROVE  /\ dguest'[q].mid => disp'.gp[q].size # 0
                 /\ ~dguest'[q].mid /\ dguest'[q].frame # NoFrame =>
                      disp'.gp[q].size # 0 /\ disp'.gp[q].buf = dguest'[q].frame
      <3>1. CASE q = p BY <1>1, <1>2, <1>3, <1>5, <1>s, <3>1
      <3>2. CASE q # p BY <1>t, <1>2, <1>3, <1>5, <3>2 DEF PipeHolds
      <3> QED BY <3>1, <3>2
    <2> QED BY <2>1 DEF PipeHolds
  <1>8. ScreenCurrent' BY <1>4 DEF ScreenCurrent
  <1> QED BY <1>6, <1>7, <1>8 DEF DispInv

\* A write of a layer of the blend unit schedules the redraw.
LEMMA BlendStep ==
  ASSUME DispInv, NEW l \in {0, 1}, NEW L \in Layer, GuestBlend(l, L)
  PROVE  DispInv'
  <1>t. DispTypeOK /\ PipeHolds BY DEF DispInv
  <1>d. disp \in Display /\ druns \in [frames : Nat, blends : Nat, resets : Nat]
    BY <1>t DEF DispTypeOK
  <1> DEFINE D == [disp EXCEPT !.layer[l] = L, !.bdirty = TRUE]
  <1>1. D \in Display /\ D.gp = disp.gp /\ D.bdirty BY <1>d DEF Display
  <1>2. disp' = UpdateDispImage(D) BY DEF GuestBlend, WriteLayer
  <1> HIDE DEF D
  <1>3. disp' \in Display /\ disp'.gp = disp.gp /\ disp'.bh
    BY <1>1, <1>2, ScheduleFacts
  <1>4. DispTypeOK'
    <2>1. druns' \in [frames : Nat, blends : Nat, resets : Nat] BY <1>d DEF GuestBlend
    <2> QED BY <1>t, <1>3, <2>1 DEF DispTypeOK, GuestBlend
  <1>5. PipeHolds' BY <1>t, <1>3 DEF PipeHolds, GuestBlend
  <1>6. ScreenCurrent' BY <1>3 DEF ScreenCurrent
  <1> QED BY <1>4, <1>5, <1>6 DEF DispInv

\* Which pipes are on show, by the modes of the layers.
LEMMA OnShow ==
  ASSUME disp.layer \in [{0, 1} -> Layer]
  PROVE  LET m == disp.layer[0].mode
             u == disp.layer[1].mode
         IN  /\ u = "bypass" \/ (u # "none" /\ m = "none") => LayersOn = {1}
             /\ u # "bypass" /\ m = "bypass" => LayersOn = {0}
             /\ u = "none" /\ m # "none" => LayersOn = {0}
             /\ u = "none" /\ m = "none" => LayersOn = {}
             /\ u = "blend" /\ m = "blend" => LayersOn = {0, 1}
  BY DEF LayersOn, Layer, BlendMode

\* adp_v4_update_disp_image_bh: the layers on show are drawn, from the pipes' buffers.
LEMMA DrawStep == ASSUME DispInv, UpdateDispImageBh PROVE DispInv'
  <1>t. DispTypeOK /\ PipeHolds BY DEF DispInv
  <1>d. disp \in Display BY <1>t DEF DispTypeOK
  <1>u. UNCHANGED <<dguest, druns>> BY DEF UpdateDispImageBh
  <1> DEFINE D == [disp EXCEPT !.bh = FALSE]
             L0 == disp.layer[0]
             L1 == disp.layer[1]
  <1>1. /\ D \in Display
        /\ D.gp = disp.gp /\ D.layer = disp.layer /\ D.screen = disp.screen
    BY <1>d DEF Display
  <1>e. D.gp = disp.gp /\ D.layer = disp.layer BY <1>1
  <1>2. disp' = Draw(D) BY DEF UpdateDispImageBh
  <1>3. L0 \in Layer /\ L1 \in Layer /\ disp.layer \in [{0, 1} -> Layer] BY <1>d DEF Display
  <1>g. disp.gp \in [Pipe -> PipeState] BY <1>d DEF Display
  <1> HIDE DEF D
  \* what every case keeps
  <1>k. ASSUME disp' \in Display, disp'.layer = disp.layer, ScreenCurrent',
               \A p \in Pipe : /\ disp'.gp[p].size = disp.gp[p].size
                               /\ disp'.gp[p].buf = disp.gp[p].buf
        PROVE  DispInv'
    BY <1>t, <1>u, <1>k DEF DispInv, DispTypeOK, PipeHolds
  \* nothing is on show
  <1>4. CASE L0.mode = "none" /\ L1.mode = "none"
    <2>1. disp' = D BY <1>e, <1>2, <1>4 DEF Draw
    <2>2. LayersOn' = {}
      <3>1. LayersOn = {} BY <1>3, <1>4, OnShow
      <3> QED BY <1>1, <2>1, <3>1 DEF LayersOn
    <2>3. \A b \in 1 .. Bands : Cover(0, b)' = <<>> /\ Cover(1, b)' = <<>> BY <2>2 DEF Cover
    <2>4. ScreenCurrent' BY <2>3 DEF ScreenCurrent
    <2> QED BY <1>1, <1>k, <2>1, <2>4
  \* the pipes of the layers were never programmed: they hold no frame
  <1>5. CASE /\ ~ (L0.mode = "none" /\ L1.mode = "none")
             /\ disp.gp[L0.pipe].size = 0 /\ disp.gp[L1.pipe].size = 0
    <2>1. disp' = D BY <1>e, <1>2, <1>5 DEF Draw
    <2>2. \E p \in PipesOn' : disp.gp[p].size = 0 /\ p \in Pipe
      <3>1. LayersOn' = LayersOn /\ PipesOn' = PipesOn BY <1>1, <2>1 DEF LayersOn, PipesOn
      <3>2. \E l \in {0, 1} : l \in LayersOn BY <1>3, <1>5, OnShow DEF Layer, BlendMode
      <3>3. PICK l \in {0, 1} : l \in LayersOn BY <3>2
      <3>4. disp.layer[l].pipe \in PipesOn BY <3>3 DEF PipesOn
      <3>5. disp.layer[l].pipe \in Pipe /\ disp.gp[disp.layer[l].pipe].size = 0
        BY <1>3, <1>5, <3>3 DEF Layer
      <3> QED BY <3>1, <3>4, <3>5
    <2>3. ~ \A p \in PipesOn' : ~dguest'[p].mid /\ dguest'[p].frame # NoFrame
      BY <1>t, <1>u, <2>2 DEF PipeHolds
    <2>4. ScreenCurrent' BY <2>3, Zenon DEF ScreenCurrent
    <2> QED BY <1>1, <1>k, <2>1, <2>4
  \* one layer is copied
  <1>6. ASSUME NEW l \in {0, 1}, LayersOn = {l}, disp' = DrawOne(D, disp.layer[l].pipe)
        PROVE  DispInv'
    <2> DEFINE p == disp.layer[l].pipe
               G == disp.gp[p]
    <2>p. p \in Pipe /\ G \in PipeState BY <1>3, <1>g DEF Layer
    <2>1. CASE G.size # 0 /\ G.buf = NoFrame
      <3>1. disp' = [D EXCEPT !.aborted = TRUE] BY <1>1, <1>6, <2>1 DEF DrawOne
      <3>2. disp' \in Display /\ disp'.layer = disp.layer /\ disp'.gp = disp.gp /\ disp'.aborted
        BY <1>1, <3>1 DEF Display
      <3>3. ScreenCurrent' BY <3>2 DEF ScreenCurrent
      <3> QED BY <1>k, <3>2, <3>3
    <2>2. CASE ~ (G.size # 0 /\ G.buf = NoFrame)
      <3> DEFINE S == [b \in 1 .. Bands |-> IF b <= G.size THEN <<G.buf>> ELSE disp.screen[b]]
      <3>1. disp' = [D EXCEPT !.screen = S, !.gp[p].dirty = FALSE, !.bdirty = FALSE]
        BY <1>1, <1>6, <2>2 DEF DrawOne
      <3>2. S \in [1 .. Bands -> Seq(Nat)]
        <4>1. disp.screen \in [1 .. Bands -> Seq(Nat)] BY <1>d DEF Display
        <4>2. G.buf \in Nat BY <2>p DEF PipeState
        <4>3. <<G.buf>> \in Seq(Nat) BY <4>2
        <4> HIDE DEF G
        <4> QED BY <4>1, <4>3
      <3>3. \A b \in 1 .. Bands : b <= G.size => S[b] = <<G.buf>> OBVIOUS
      <3>4. [disp.gp EXCEPT ![p].dirty = FALSE] \in [Pipe -> PipeState] BY <1>g, <2>p DEF PipeState
      <3> HIDE DEF S
      <3>5. disp' = [D EXCEPT !.screen = S, !.gp = [disp.gp EXCEPT ![p].dirty = FALSE],
                              !.bdirty = FALSE]
        BY <1>1, <3>1 DEF Display
      <3>6. /\ disp' \in Display /\ disp'.layer = disp.layer /\ disp'.screen = S
            /\ disp'.gp = [disp.gp EXCEPT ![p].dirty = FALSE]
        BY <1>1, <3>2, <3>4, <3>5 DEF Display
      <3>7. \A q \in Pipe : disp'.gp[q].size = disp.gp[q].size /\ disp'.gp[q].buf = disp.gp[q].buf
        BY <1>g, <3>6 DEF PipeState
      <3>8. ScreenCurrent'
        <4>1. LayersOn' = {l} /\ PipesOn' = {p} BY <1>6, <3>6 DEF LayersOn, PipesOn
        <4>2. SUFFICES ASSUME ~dguest'[p].mid, dguest'[p].frame # NoFrame, NEW b \in 1 .. Bands,
                              (Cover(0, b) \o Cover(1, b))' # <<>>
                       PROVE  disp'.screen[b] = (Cover(0, b) \o Cover(1, b))'
          BY <4>1, Zenon DEF ScreenCurrent
        <4>3. G.buf = dguest'[p].frame BY <1>t, <1>u, <2>p, <4>2 DEF PipeHolds
        <4>4. disp'.layer[l].pipe = p /\ disp'.gp[p].size = G.size BY <2>p, <3>6, <3>7
        <4>5. Cover(l, b)' = IF b <= G.size THEN <<G.buf>> ELSE <<>>
          BY <4>1, <4>3, <4>4 DEF Cover
        <4>6. \A k \in {0, 1} : k # l => Cover(k, b)' = <<>> BY <4>1 DEF Cover
        <4>s. Cover(l, b)' \in Seq(Nat)
          <5>1. G.buf \in Nat BY <2>p DEF PipeState
          <5>2. <<G.buf>> \in Seq(Nat) /\ <<>> \in Seq(Nat) BY <5>1
          <5> QED BY <4>5, <5>2, Zenon
        <4>c. \A t \in Seq(Nat) : t \o <<>> = t /\ <<>> \o t = t OBVIOUS
        <4>7. (Cover(0, b) \o Cover(1, b))' = Cover(l, b)'
          <5>1. CASE l = 0
            <6>1. Cover(1, b)' = <<>> BY <4>6, <5>1
            <6> QED BY <4>s, <4>c, <5>1, <6>1, Zenon
          <5>2. CASE l = 1
            <6>1. Cover(0, b)' = <<>> BY <4>6, <5>2
            <6> QED BY <4>s, <4>c, <5>2, <6>1, Zenon
          <5> QED BY <5>1, <5>2
        <4>8. b <= G.size BY <4>2, <4>5, <4>7
        <4> QED BY <3>3, <3>6, <4>5, <4>7, <4>8
      <3> QED BY <1>k, <3>6, <3>7, <3>8
    <2> QED BY <2>1, <2>2
  \* two layers are drawn over each other
  <1>7. ASSUME LayersOn = {0, 1}, disp' = DrawBoth(D, L0.pipe, L1.pipe) PROVE DispInv'
    <2> DEFINE p == L0.pipe
               q == L1.pipe
               G == disp.gp[p]
               H == disp.gp[q]
    <2>p. p \in Pipe /\ q \in Pipe /\ G \in PipeState /\ H \in PipeState BY <1>3, <1>g DEF Layer
    <2>1. CASE p = q \/ G.buf = NoFrame \/ H.buf = NoFrame
      <3>1. disp' = [D EXCEPT !.aborted = TRUE] BY <1>1, <1>7, <2>1 DEF DrawBoth
      <3>2. disp' \in Display /\ disp'.layer = disp.layer /\ disp'.gp = disp.gp /\ disp'.aborted
        BY <1>1, <3>1 DEF Display
      <3>3. ScreenCurrent' BY <3>2 DEF ScreenCurrent
      <3> QED BY <1>k, <3>2, <3>3
    <2>2. CASE ~ (p = q \/ G.buf = NoFrame \/ H.buf = NoFrame)
      <3> DEFINE S == [b \in 1 .. Bands |-> (IF b <= G.size THEN <<G.buf>> ELSE <<>>)
                                              \o (IF b <= H.size THEN <<H.buf>> ELSE <<>>)]
                 gp == [disp.gp EXCEPT ![p].dirty = FALSE, ![q].dirty = FALSE]
      <3>1. disp' = [D EXCEPT !.screen = S, !.gp = gp, !.bdirty = FALSE]
        BY <1>1, <1>7, <2>2 DEF DrawBoth
      <3>2. S \in [1 .. Bands -> Seq(Nat)]
        <4>1. G.buf \in Nat /\ H.buf \in Nat BY <2>p DEF PipeState
        <4> HIDE DEF G, H
        <4>2. ASSUME NEW b \in 1 .. Bands
              PROVE  (IF b <= G.size THEN <<G.buf>> ELSE <<>>)
                       \o (IF b <= H.size THEN <<H.buf>> ELSE <<>>) \in Seq(Nat)
          BY <4>1
        <4> QED BY <4>2
      <3>3. \A b \in 1 .. Bands : S[b] = (IF b <= G.size THEN <<G.buf>> ELSE <<>>)
                                           \o (IF b <= H.size THEN <<H.buf>> ELSE <<>>)
        OBVIOUS
      <3>4. gp \in [Pipe -> PipeState] /\ \A k \in Pipe : gp[k].size = disp.gp[k].size
                                                          /\ gp[k].buf = disp.gp[k].buf
        BY <1>g, <2>p DEF PipeState
      <3> HIDE DEF S
      <3> HIDE DEF gp
      <3>6. disp' \in Display /\ disp'.layer = disp.layer /\ disp'.screen = S /\ disp'.gp = gp
        BY <1>1, <3>1, <3>2, <3>4 DEF Display
      <3>8. ScreenCurrent'
        <4>1. LayersOn' = {0, 1} /\ PipesOn' = {p, q} BY <1>7, <3>6 DEF LayersOn, PipesOn
        <4>2. SUFFICES ASSUME \A k \in {p, q} : ~dguest'[k].mid /\ dguest'[k].frame # NoFrame,
                              NEW b \in 1 .. Bands
                       PROVE  disp'.screen[b] = (Cover(0, b) \o Cover(1, b))'
          BY <4>1, Zenon DEF ScreenCurrent
        <4>3. G.buf = dguest'[p].frame /\ H.buf = dguest'[q].frame
          BY <1>t, <1>u, <2>p, <4>2 DEF PipeHolds
        <4>4. /\ disp'.layer[0].pipe = p /\ disp'.gp[p].size = G.size
              /\ disp'.layer[1].pipe = q /\ disp'.gp[q].size = H.size
          BY <2>p, <3>4, <3>6
        <4>5. Cover(0, b)' = IF b <= G.size THEN <<G.buf>> ELSE <<>>
          BY <4>1, <4>3, <4>4 DEF Cover
        <4>6. Cover(1, b)' = IF b <= H.size THEN <<H.buf>> ELSE <<>>
          BY <4>1, <4>3, <4>4 DEF Cover
        <4> QED BY <3>3, <3>6, <4>5, <4>6, Zenon
      <3> QED BY <1>k, <3>4, <3>6, <3>8
    <2> QED BY <2>1, <2>2
  <1>8. CASE /\ ~ (L0.mode = "none" /\ L1.mode = "none")
             /\ ~ (disp.gp[L0.pipe].size = 0 /\ disp.gp[L1.pipe].size = 0)
    <2>1. CASE L1.mode = "bypass" \/ (L1.mode # "none" /\ L0.mode = "none")
      <3>1. disp' = DrawOne(D, L1.pipe) BY <1>e, <1>2, <1>8, <2>1 DEF Draw
      <3>2. LayersOn = {1} BY <1>3, <2>1, OnShow
      <3> QED BY <1>6, <3>1, <3>2
    <2>2. CASE /\ ~ (L1.mode = "bypass" \/ (L1.mode # "none" /\ L0.mode = "none"))
               /\ L0.mode = "bypass" \/ L1.mode = "none"
      <3>1. disp' = DrawOne(D, L0.pipe) BY <1>e, <1>2, <1>8, <2>2 DEF Draw
      <3>2. LayersOn = {0} BY <1>3, <1>8, <2>2, OnShow
      <3> QED BY <1>6, <3>1, <3>2
    <2>3. CASE /\ ~ (L1.mode = "bypass" \/ (L1.mode # "none" /\ L0.mode = "none"))
               /\ ~ (L0.mode = "bypass" \/ L1.mode = "none")
      <3>1. disp' = DrawBoth(D, L0.pipe, L1.pipe) BY <1>e, <1>2, <1>8, <2>3 DEF Draw
      <3>2. L0.mode = "blend" /\ L1.mode = "blend" BY <1>3, <2>3 DEF Layer, BlendMode
      <3>3. LayersOn = {0, 1} BY <1>3, <3>2, OnShow
      <3> QED BY <1>7, <3>1, <3>3
    <2> QED BY <2>1, <2>2, <2>3
  <1> QED BY <1>4, <1>5, <1>8

\* Every register write, the vertical blank, the redraw and a reset preserve the invariant.
LEMMA DispStep == ASSUME DispInv, [DispNext]_dispvars PROVE DispInv'
  <1>1. CASE UNCHANGED dispvars
    <2>1. disp' = disp /\ dguest' = dguest /\ druns' = druns BY <1>1 DEF dispvars
    <2>2. DispTypeOK' BY <2>1 DEF DispInv, DispTypeOK
    <2>3. PipeHolds' BY <2>1 DEF DispInv, PipeHolds
    <2>4. LayersOn' = LayersOn /\ PipesOn' = PipesOn BY <2>1 DEF LayersOn, PipesOn
    <2>5. \A l \in {0, 1}, b \in 1 .. Bands : Cover(l, b)' = Cover(l, b)
      BY <2>1, <2>4 DEF Cover
    <2>6. ScreenCurrent' BY <2>1, <2>4, <2>5 DEF DispInv, ScreenCurrent
    <2> QED BY <2>2, <2>3, <2>6 DEF DispInv
  <1>2. ASSUME ~disp.aborted, NEW l \in {0, 1}, NEW L \in [pipe : Pipe, mode : BlendMode],
               GuestBlend(l, L)
        PROVE  DispInv'
    BY <1>2, BlendStep DEF Layer
  <1>3. CASE DispNext
    BY <1>2, <1>3, DrawStep, VblankStep, DispResetStep, ProgramStep, RunStep DEF DispNext
  <1> QED BY <1>1, <1>3

\* In every state without a pending redraw, each band of the screen that a layer covers
\* shows the frame the guest ran last on that layer's pipe (adp_v4_update_disp_image_bh,
\* adp_v4_update_disp_image).
THEOREM DispScreenCurrent == DispSpec => []ScreenCurrent
  <1>1. DispInv => ScreenCurrent BY DEF DispInv
  <1> QED BY <1>1, DispInitInv, DispStep, PTL DEF DispSpec
=============================================================================
