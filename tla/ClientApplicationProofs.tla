----------------------- MODULE ClientApplicationProofs -----------------------
(***************************************************************************)
(* What holds of the client program for any sizes of its window and        *)
(* whatever calls of the platform fail.  First what each function leaves   *)
(* behind when all goes well and when a call in it fails, from the start   *)
(* over the resize and the frame to the end; then the inductive invariant  *)
(* ApplicationInv: the state Run needs at each place of its loop.          *)
(***************************************************************************)
EXTENDS ClientApplication, TLAPS

-----------------------------------------------------------------------------
(* What a call does to the client, and what it leaves alone.               *)

\* d is what became of c: all went well, or a call of the platform failed.
Outcome(c, d) ==
    /\ d \in Clients
    /\ \/ d.ok /\ d.faulted = c.faulted
       \/ ~d.ok /\ d.faulted

SameApplication(c, d) ==
    /\ d.running = c.running /\ d.exitCode = c.exitCode /\ d.window = c.window
    /\ d.game = c.game /\ d.told = c.told
SameResources(c, d) == d.repository = c.repository /\ d.renderObjects = c.renderObjects
SamePicture(c, d) == d.drawn = c.drawn /\ d.shown = c.shown

OnlyRenderer(c, d) ==
    /\ SameApplication(c, d) /\ SameResources(c, d) /\ SamePicture(c, d)
    /\ d.hud = c.hud /\ d.ui = c.ui
OnlyHud(c, d) ==
    /\ SameApplication(c, d) /\ SameResources(c, d) /\ SamePicture(c, d)
    /\ d.renderer = c.renderer /\ d.ui = c.ui
OnlyUi(c, d) ==
    /\ SameApplication(c, d) /\ SameResources(c, d) /\ SamePicture(c, d)
    /\ d.renderer = c.renderer /\ d.hud = c.hud

\* A call of the platform that fails changes nothing but the result.
LEMMA CallOutcome ==
  ASSUME NEW c \in Clients, c.ok, NEW name, NEW failing, NEW d, d = Call(c, name, failing)
  PROVE  /\ Outcome(c, d)
         /\ d.ok => d = c
         /\ ~d.ok => OnlyRenderer(c, d) /\ OnlyHud(c, d) /\ OnlyUi(c, d)
BY DEF Call, Outcome, Clients, OnlyRenderer, OnlyHud, OnlyUi, SameApplication, SameResources,
       SamePicture

\* One part of the client takes a new value.
WithRenderer(c, renderer) == [c EXCEPT !.renderer = renderer]
WithHud(c, hud) == [c EXCEPT !.hud = hud]
WithUi(c, ui) == [c EXCEPT !.ui = ui]

\* Nothing but the renderer changes.
LEMMA RendererUpdate ==
  ASSUME NEW c \in Clients, NEW p \in Renderers, NEW d, d = WithRenderer(c, p)
  PROVE  /\ d \in Clients /\ OnlyRenderer(c, d) /\ d.renderer = p
         /\ d.ok = c.ok /\ d.faulted = c.faulted
BY DEF WithRenderer, Clients, OnlyRenderer, SameApplication, SameResources, SamePicture

\* Nothing but the HUD changes.
LEMMA HudUpdate ==
  ASSUME NEW c \in Clients, NEW p \in Huds, NEW d, d = WithHud(c, p)
  PROVE  /\ d \in Clients /\ OnlyHud(c, d) /\ d.hud = p
         /\ d.ok = c.ok /\ d.faulted = c.faulted
BY DEF WithHud, Clients, OnlyHud, SameApplication, SameResources, SamePicture

\* Nothing but the network UI changes.
LEMMA UiUpdate ==
  ASSUME NEW c \in Clients, NEW p \in Uis, NEW d, d = WithUi(c, p)
  PROVE  /\ d \in Clients /\ OnlyUi(c, d) /\ d.ui = p
         /\ d.ok = c.ok /\ d.faulted = c.faulted
BY DEF WithUi, Clients, OnlyUi, SameApplication, SameResources, SamePicture

\* A call of the platform on which a change of the client depends.
Depends(c, name, failing, changed) ==
    IF Call(c, name, failing).ok THEN changed ELSE Call(c, name, failing)

\* The renderer takes its new value if the call succeeds.
LEMMA CallThenRenderer ==
  ASSUME NEW c \in Clients, c.ok, NEW name, NEW failing, NEW p \in Renderers, NEW d,
         d = Depends(c, name, failing, WithRenderer(c, p))
  PROVE  /\ Outcome(c, d) /\ OnlyRenderer(c, d)
         /\ d.ok => d.renderer = p
         /\ ~d.ok => d.renderer = c.renderer
<1> DEFINE made == Call(c, name, failing)
<1>1. /\ Outcome(c, made)
      /\ ~made.ok => OnlyRenderer(c, made) /\ made.renderer = c.renderer
  BY CallOutcome DEF OnlyRenderer, OnlyHud
<1>2. /\ made.ok => d = WithRenderer(c, p)
      /\ ~made.ok => d = made
  BY DEF Depends
<1> HIDE DEF made
<1>3. ASSUME made.ok
      PROVE  Outcome(c, d) /\ OnlyRenderer(c, d) /\ d.ok /\ d.renderer = p
  BY <1>2, <1>3, RendererUpdate DEF Outcome
<1>4. ASSUME ~made.ok
      PROVE  Outcome(c, d) /\ OnlyRenderer(c, d) /\ ~d.ok /\ d.renderer = c.renderer
  BY <1>1, <1>2, <1>4
<1> QED
  BY <1>3, <1>4

\* The HUD takes its new value if the call succeeds.
LEMMA CallThenHud ==
  ASSUME NEW c \in Clients, c.ok, NEW name, NEW failing, NEW p \in Huds, NEW d,
         d = Depends(c, name, failing, WithHud(c, p))
  PROVE  /\ Outcome(c, d) /\ OnlyHud(c, d)
         /\ d.ok => d.hud = p
         /\ ~d.ok => d.hud = c.hud
<1> DEFINE made == Call(c, name, failing)
<1>1. /\ Outcome(c, made)
      /\ ~made.ok => OnlyHud(c, made) /\ made.hud = c.hud
  BY CallOutcome DEF OnlyRenderer, OnlyHud
<1>2. /\ made.ok => d = WithHud(c, p)
      /\ ~made.ok => d = made
  BY DEF Depends
<1> HIDE DEF made
<1>3. ASSUME made.ok
      PROVE  Outcome(c, d) /\ OnlyHud(c, d) /\ d.ok /\ d.hud = p
  BY <1>2, <1>3, HudUpdate DEF Outcome
<1>4. ASSUME ~made.ok
      PROVE  Outcome(c, d) /\ OnlyHud(c, d) /\ ~d.ok /\ d.hud = c.hud
  BY <1>1, <1>2, <1>4
<1> QED
  BY <1>3, <1>4

\* The network UI takes its new value if the call succeeds.
LEMMA CallThenUi ==
  ASSUME NEW c \in Clients, c.ok, NEW name, NEW failing, NEW p \in Uis, NEW d,
         d = Depends(c, name, failing, WithUi(c, p))
  PROVE  /\ Outcome(c, d) /\ OnlyUi(c, d)
         /\ d.ok => d.ui = p
         /\ ~d.ok => d.ui = c.ui
<1> DEFINE made == Call(c, name, failing)
<1>1. /\ Outcome(c, made)
      /\ ~made.ok => OnlyUi(c, made) /\ made.ui = c.ui
  BY CallOutcome DEF OnlyRenderer, OnlyHud
<1>2. /\ made.ok => d = WithUi(c, p)
      /\ ~made.ok => d = made
  BY DEF Depends
<1> HIDE DEF made
<1>3. ASSUME made.ok
      PROVE  Outcome(c, d) /\ OnlyUi(c, d) /\ d.ok /\ d.ui = p
  BY <1>2, <1>3, UiUpdate DEF Outcome
<1>4. ASSUME ~made.ok
      PROVE  Outcome(c, d) /\ OnlyUi(c, d) /\ ~d.ok /\ d.ui = c.ui
  BY <1>1, <1>2, <1>4
<1> QED
  BY <1>3, <1>4

-----------------------------------------------------------------------------
(* The renderer.                                                           *)

\* A renderer whose views are all of one size.
FullRenderer(size) ==
    [initialized |-> TRUE, device |-> TRUE, backBuffer |-> size,
     renderTargetView |-> size, depthStencilView |-> size, bound |-> FALSE]

\* The render target view is a view of the back buffer.
LEMMA TargetViewEffect ==
  ASSUME NEW c \in Clients, c.ok, c.renderer.device, NEW failing, NEW d,
         d = CreateRenderTargetView(c, failing)
  PROVE  /\ Outcome(c, d) /\ OnlyRenderer(c, d)
         /\ d.ok => d.renderer = [c.renderer EXCEPT !.renderTargetView = c.renderer.backBuffer]
         /\ ~d.ok => d.renderer = c.renderer
<1> DEFINE made == Call(c, "TargetView", failing)
           new == [c.renderer EXCEPT !.renderTargetView = c.renderer.backBuffer]
<1>1. made.ok => made = c
  BY CallOutcome
<1>2. d = Depends(c, "TargetView", failing, WithRenderer(c, new))
  BY <1>1 DEF CreateRenderTargetView, Require, Then, Depends, WithRenderer, Clients, Renderers
<1>3. new \in Renderers
  BY ClientApplicationAssumption DEF Clients, Renderers, Views
<1> HIDE DEF new
<1>4. /\ Outcome(c, d) /\ OnlyRenderer(c, d)
      /\ d.ok => d.renderer = new
      /\ ~d.ok => d.renderer = c.renderer
  BY <1>2, <1>3, CallThenRenderer
<1> QED
  BY <1>4 DEF new

\* The depth buffer has the size that was asked for, which has pixels.
LEMMA DepthStencilEffect ==
  ASSUME NEW c \in Clients, c.ok, c.renderer.device, NEW size \in Sizes, NEW failing, NEW d,
         d = CreateDepthStencilBufferAndView(c, size, failing)
  PROVE  /\ Outcome(c, d) /\ OnlyRenderer(c, d)
         /\ d.ok => d.renderer = [c.renderer EXCEPT !.depthStencilView = size]
         /\ ~d.ok => d.renderer = c.renderer
<1> DEFINE made == Call(c, "DepthStencil", failing)
           new == [c.renderer EXCEPT !.depthStencilView = size]
<1>1. made.ok => made = c
  BY CallOutcome
<1>2. d = Depends(c, "DepthStencil", failing, WithRenderer(c, new))
  BY <1>1, ClientApplicationAssumption
  DEF CreateDepthStencilBufferAndView, Require, Then, Depends, WithRenderer, Clients, Renderers
<1>3. new \in Renderers
  BY ClientApplicationAssumption DEF Clients, Renderers, Views
<1> HIDE DEF new
<1>4. /\ Outcome(c, d) /\ OnlyRenderer(c, d)
      /\ d.ok => d.renderer = new
      /\ ~d.ok => d.renderer = c.renderer
  BY <1>2, <1>3, CallThenRenderer
<1> QED
  BY <1>4 DEF new

\* Device and back buffer are made for the size the window was created for.
LEMMA SwapChainEffect ==
  ASSUME NEW c \in Clients, c.ok, NEW failing, NEW d,
         d = CreateDeviceAndSwapChain(c, failing)
  PROVE  /\ Outcome(c, d) /\ OnlyRenderer(c, d)
         /\ d.ok => d.renderer = [c.renderer EXCEPT !.device = TRUE, !.backBuffer = InitialSize]
         /\ ~d.ok => d.renderer = c.renderer
<1> DEFINE made == Call(c, "SwapChain", failing)
           new == [c.renderer EXCEPT !.device = TRUE, !.backBuffer = InitialSize]
<1>1. made.ok => made = c
  BY CallOutcome
<1>2. d = Depends(c, "SwapChain", failing, WithRenderer(c, new))
  BY <1>1 DEF CreateDeviceAndSwapChain, Require, Then, Depends, WithRenderer, Clients, Renderers
<1>3. new \in Renderers
  BY ClientApplicationAssumption DEF Clients, Renderers, Views
<1> HIDE DEF new
<1>4. /\ Outcome(c, d) /\ OnlyRenderer(c, d)
      /\ d.ok => d.renderer = new
      /\ ~d.ok => d.renderer = c.renderer
  BY <1>2, <1>3, CallThenRenderer
<1> QED
  BY <1>4 DEF new

\* Steps on the renderer follow each other, the next only when all went well.
RendererStep(c, d) == Outcome(c, d) /\ OnlyRenderer(c, d)

\* Two of them are one.
LEMMA RendererSteps ==
  ASSUME NEW c \in Clients, NEW d, NEW e, RendererStep(c, d),
         d.ok => RendererStep(d, e), ~d.ok => e = d
  PROVE  RendererStep(c, e)
BY DEF RendererStep, Outcome, OnlyRenderer, SameApplication, SameResources, SamePicture, Clients

\* A renderer whose views are all of one size.
Whole(renderer, size) ==
    /\ renderer \in Renderers /\ renderer.initialized /\ renderer.device
    /\ renderer.backBuffer = size /\ renderer.renderTargetView = size
    /\ renderer.depthStencilView = size

\* A renderer that could not be initialised is given back.
LEMMA RendererMade ==
  ASSUME NEW c \in Clients, c.ok, c.renderer = NoRenderer, c.window.created, NEW failing,
         NEW d, d = InitializeRenderer(c, failing)
  PROVE  /\ RendererStep(c, d)
         /\ d.ok => Whole(d.renderer, InitialSize)
         /\ ~d.ok => d.renderer = NoRenderer
<1> DEFINE created == CreateDeviceAndSwapChain(c, failing)
           factory == IF created.ok THEN Call(created, "ImagingFactory", failing) ELSE created
           target  == IF factory.ok THEN CreateRenderTargetView(factory, failing) ELSE factory
           depth   == IF target.ok
                      THEN CreateDepthStencilBufferAndView(target, InitialSize, failing)
                      ELSE target
           ready   == IF depth.ok THEN Call(depth, "Pipeline", failing) ELSE depth
           device  == [NoRenderer EXCEPT !.device = TRUE, !.backBuffer = InitialSize]
           view    == [device EXCEPT !.renderTargetView = InitialSize]
           views   == [view EXCEPT !.depthStencilView = InitialSize]
<1>1. d = IF ready.ok THEN WithRenderer(ready, [ready.renderer EXCEPT !.initialized = TRUE])
                      ELSE WithRenderer(ready, NoRenderer)
  <2>1. created = Then(Require(c, ~c.renderer.initialized /\ c.window.created),
                       LAMBDA e : CreateDeviceAndSwapChain(e, failing))
    BY DEF Then, Require, NoRenderer
  <2>2. factory = Then(created, LAMBDA e : Call(e, "ImagingFactory", failing))
    BY DEF Then
  <2>3. target = Then(factory, LAMBDA e : CreateRenderTargetView(e, failing))
    BY DEF Then
  <2>4. depth = Then(target, LAMBDA e :
                                 CreateDepthStencilBufferAndView(e, InitialSize, failing))
    BY DEF Then
  <2>5. ready = Then(depth, LAMBDA e : Call(e, "Pipeline", failing))
    BY DEF Then
  <2> HIDE DEF created, factory, target, depth, ready
  <2>6. d = OrElse(Then(ready, LAMBDA e : [e EXCEPT !.renderer.initialized = TRUE]),
                   ShutdownRenderer)
    BY <2>1, <2>2, <2>3, <2>4, <2>5 DEF InitializeRenderer
  <2> QED
    BY <2>6 DEF Then, OrElse, ShutdownRenderer, WithRenderer
<1>2. /\ RendererStep(c, created)
      /\ created.ok => created.renderer = device
  BY SwapChainEffect DEF RendererStep
<1>3. created \in Clients
  BY <1>2 DEF RendererStep, Outcome
<1> HIDE DEF created
<1>4. /\ RendererStep(c, factory)
      /\ factory.ok => factory.renderer = device
  <2>1. ASSUME created.ok
        PROVE  RendererStep(created, factory) /\ (factory.ok => factory = created)
    BY <1>3, <2>1, CallOutcome DEF RendererStep, OnlyRenderer, SameApplication,
       SameResources, SamePicture
  <2>2. ~created.ok => factory = created
    OBVIOUS
  <2>3. RendererStep(c, factory)
    <3> HIDE DEF factory
    <3> QED
      BY <1>2, <2>1, <2>2, RendererSteps
  <2>4. factory.ok => created.ok
    BY <2>2
  <2> QED
    BY <1>2, <2>1, <2>3, <2>4
<1>5. factory \in Clients
  BY <1>4 DEF RendererStep, Outcome
<1> HIDE DEF factory
<1>6. /\ RendererStep(c, target)
      /\ target.ok => target.renderer = view
  <2>1. ASSUME factory.ok
        PROVE  RendererStep(factory, target) /\ (target.ok => target.renderer = view)
    <3>1. factory.renderer = device
      BY <1>4, <2>1
    <3>2. factory.renderer.device /\ factory.renderer.backBuffer = InitialSize
      BY <3>1 DEF NoRenderer
    <3>3. target = CreateRenderTargetView(factory, failing)
      BY <2>1
    <3> HIDE DEF target
    <3>4. /\ Outcome(factory, target) /\ OnlyRenderer(factory, target)
          /\ target.ok =>
                target.renderer = [factory.renderer EXCEPT
                                     !.renderTargetView = factory.renderer.backBuffer]
      BY <1>5, <2>1, <3>2, <3>3, TargetViewEffect
    <3>5. [factory.renderer EXCEPT !.renderTargetView = factory.renderer.backBuffer] = view
      BY <3>1, <3>2
    <3> QED
      BY <3>4, <3>5 DEF RendererStep
  <2>2. ~factory.ok => target = factory
    OBVIOUS
  <2> HIDE DEF target
  <2> QED
    BY <1>4, <2>1, <2>2, RendererSteps
<1>7. target \in Clients
  BY <1>6 DEF RendererStep, Outcome
<1> HIDE DEF target
<1>8. /\ RendererStep(c, depth)
      /\ depth.ok => depth.renderer = views
  <2>1. ASSUME target.ok
        PROVE  RendererStep(target, depth) /\ (depth.ok => depth.renderer = views)
    <3>1. target.renderer = view
      BY <1>6, <2>1
    <3>2. target.renderer.device
      BY <3>1 DEF NoRenderer
    <3>3. depth = CreateDepthStencilBufferAndView(target, InitialSize, failing)
      BY <2>1
    <3> HIDE DEF depth
    <3>4. /\ Outcome(target, depth) /\ OnlyRenderer(target, depth)
          /\ depth.ok =>
                depth.renderer = [target.renderer EXCEPT !.depthStencilView = InitialSize]
      BY <1>7, <2>1, <3>2, <3>3, DepthStencilEffect, ClientApplicationAssumption
    <3>5. [target.renderer EXCEPT !.depthStencilView = InitialSize] = views
      BY <3>1
    <3> QED
      BY <3>4, <3>5 DEF RendererStep
  <2>2. ~target.ok => depth = target
    OBVIOUS
  <2> HIDE DEF depth
  <2> QED
    BY <1>6, <2>1, <2>2, RendererSteps
<1>9. depth \in Clients
  BY <1>8 DEF RendererStep, Outcome
<1> HIDE DEF depth
<1>10. /\ RendererStep(c, ready)
       /\ ready.ok => ready.renderer = views
  <2>1. ASSUME depth.ok
        PROVE  RendererStep(depth, ready) /\ (ready.ok => ready = depth)
    BY <1>9, <2>1, CallOutcome DEF RendererStep, OnlyRenderer, SameApplication,
       SameResources, SamePicture
  <2>2. ~depth.ok => ready = depth
    OBVIOUS
  <2>3. RendererStep(c, ready)
    <3> HIDE DEF ready
    <3> QED
      BY <1>8, <2>1, <2>2, RendererSteps
  <2>4. ready.ok => depth.ok
    BY <2>2
  <2> QED
    BY <1>8, <2>1, <2>3, <2>4
<1> HIDE DEF ready
<1>11. ready \in Clients
  BY <1>10 DEF RendererStep, Outcome
<1>12. /\ RendererStep(c, d) /\ d.ok = ready.ok
       /\ ready.ok => Whole(d.renderer, InitialSize)
       /\ ~ready.ok => d.renderer = NoRenderer
  <2>1. NoRenderer \in Renderers
    BY DEF NoRenderer, Renderers, Views
  <2>2. LET r == [views EXCEPT !.initialized = TRUE]
        IN  /\ Whole(r, InitialSize)
            /\ ready.ok => d = WithRenderer(ready, r)
    <3> DEFINE r == [views EXCEPT !.initialized = TRUE]
    <3>1. Whole(r, InitialSize)
      BY ClientApplicationAssumption DEF Whole, NoRenderer, Renderers, Views
    <3> HIDE DEF views
    <3>2. ready.ok => d = WithRenderer(ready, r)
      BY <1>1, <1>10
    <3> QED
      BY <3>1, <3>2
  <2>3. \E r \in Renderers : d = WithRenderer(ready, r)
    BY <1>1, <2>1, <2>2 DEF Whole
  <2>4. OnlyRenderer(ready, d) /\ d \in Clients /\ d.ok = ready.ok /\ d.faulted = ready.faulted
    BY <1>11, <2>3, RendererUpdate
  <2>5. RendererStep(c, d)
    BY <1>10, <2>4 DEF RendererStep, Outcome, OnlyRenderer, SameApplication,
       SameResources, SamePicture
  <2>6. ASSUME ready.ok PROVE Whole(d.renderer, InitialSize)
    <3> DEFINE r == [views EXCEPT !.initialized = TRUE]
    <3>1. Whole(r, InitialSize) /\ d = WithRenderer(ready, r)
      BY <2>2, <2>6
    <3> HIDE DEF r
    <3>2. d.renderer = r
      BY <1>11, <3>1, RendererUpdate DEF Whole
    <3> QED
      BY <3>1, <3>2
  <2>7. ASSUME ~ready.ok PROVE d.renderer = NoRenderer
    BY <1>1, <1>11, <2>1, <2>7, RendererUpdate
  <2> QED
    BY <2>4, <2>5, <2>6, <2>7
<1> QED
  BY <1>12

\* The platform lets the buffers be resized: nothing refers to them.
LEMMA ResizeBuffersEffect ==
  ASSUME NEW c \in Clients, c.ok, c.renderer.renderTargetView = None,
         c.hud.targetBitmap = None, ~c.renderer.bound, NEW size \in Sizes, NEW failing,
         NEW d, d = ResizeBuffers(c, size, failing)
  PROVE  /\ RendererStep(c, d)
         /\ d.ok => d.renderer = [c.renderer EXCEPT !.backBuffer = size]
         /\ ~d.ok => d.renderer = c.renderer
<1> DEFINE made == Call(c, "ResizeBuffers", failing)
           new == [c.renderer EXCEPT !.backBuffer = size]
<1>1. made.ok => made = c
  BY CallOutcome
<1>2. d = Depends(c, "ResizeBuffers", failing, WithRenderer(c, new))
  BY <1>1 DEF ResizeBuffers, Require, Then, Depends, WithRenderer, Clients, Renderers
<1>3. new \in Renderers
  BY DEF Clients, Renderers, Views
<1> HIDE DEF new
<1>4. /\ Outcome(c, d) /\ OnlyRenderer(c, d)
      /\ d.ok => d.renderer = new
      /\ ~d.ok => d.renderer = c.renderer
  BY <1>2, <1>3, CallThenRenderer
<1> QED
  BY <1>4 DEF new, RendererStep

\* After a resize all views have the new size, or the renderer is unusable.
LEMMA ResizeEffect ==
  ASSUME NEW c \in Clients, c.ok, c.renderer.initialized, c.renderer.device,
         c.hud.targetBitmap = None, NEW size \in Sizes, NEW failing,
         NEW d, d = Resize(c, size, failing)
  PROVE  /\ RendererStep(c, d)
         /\ d.ok => Whole(d.renderer, size)
<1> DEFINE bare == [c.renderer EXCEPT !.bound = FALSE, !.renderTargetView = None,
                                      !.depthStencilView = None]
           released == WithRenderer(c, bare)
           resized == ResizeBuffers(released, size, failing)
           buffer == [bare EXCEPT !.backBuffer = size]
           target == IF resized.ok THEN CreateRenderTargetView(resized, failing) ELSE resized
           view == [buffer EXCEPT !.renderTargetView = size]
           depth == IF target.ok THEN CreateDepthStencilBufferAndView(target, size, failing)
                                 ELSE target
<1>1. d = IF depth.ok THEN depth
                      ELSE WithRenderer(depth, [depth.renderer EXCEPT !.initialized = FALSE])
  <2>1. released = [c EXCEPT !.renderer.bound = FALSE,
                             !.renderer.renderTargetView = None,
                             !.renderer.depthStencilView = None]
    BY DEF WithRenderer, Clients, Renderers
  <2> HIDE DEF released
  <2>2. d = OrElse(depth, LAMBDA e : [e EXCEPT !.renderer.initialized = FALSE])
    BY <2>1 DEF Resize, Then
  <2> HIDE DEF depth
  <2> QED
    BY <2>2 DEF OrElse, WithRenderer
<1>2. bare \in Renderers /\ c.renderer \in Renderers
  BY DEF Clients, Renderers, Views
<1>3. /\ RendererStep(c, released) /\ released \in Clients /\ released.ok
      /\ released.renderer = bare /\ released.hud = c.hud
  <2> HIDE DEF bare
  <2> QED
    BY <1>2, RendererUpdate DEF RendererStep, Outcome, OnlyRenderer
<1> HIDE DEF released
<1>4. /\ RendererStep(released, resized)
      /\ resized.ok => resized.renderer = buffer
  <2>1. /\ bare.renderTargetView = None /\ ~bare.bound
        /\ released.hud.targetBitmap = None
    BY <1>2, <1>3 DEF Renderers
  <2> HIDE DEF bare
  <2> QED
    BY <1>3, <2>1, ResizeBuffersEffect
<1> HIDE DEF resized
<1>5. RendererStep(c, resized) /\ resized \in Clients
  BY <1>3, <1>4, RendererSteps DEF RendererStep, Outcome
<1>6. /\ buffer.device /\ buffer.backBuffer = size /\ view.device
      /\ Whole([view EXCEPT !.depthStencilView = size], size)
  BY <1>2 DEF Renderers, Views, Whole
<1> HIDE DEF bare
<1>7. /\ RendererStep(c, target)
      /\ target.ok => target.renderer = view
  <2>1. ASSUME resized.ok
        PROVE  RendererStep(resized, target) /\ (target.ok => target.renderer = view)
    <3>1. target = CreateRenderTargetView(resized, failing)
      BY <2>1
    <3> HIDE DEF target, buffer
    <3> QED
      BY <1>4, <1>5, <1>6, <2>1, <3>1, TargetViewEffect DEF RendererStep
  <2>2. ~resized.ok => target = resized
    OBVIOUS
  <2> HIDE DEF target
  <2> QED
    BY <1>5, <2>1, <2>2, RendererSteps
<1> HIDE DEF target, view
<1>8. target \in Clients
  BY <1>7 DEF RendererStep, Outcome
<1>9. /\ RendererStep(c, depth)
      /\ depth.ok => Whole(depth.renderer, size)
  <2>1. ASSUME target.ok
        PROVE  /\ RendererStep(target, depth)
               /\ depth.ok => Whole(depth.renderer, size)
    <3>1. depth = CreateDepthStencilBufferAndView(target, size, failing)
      BY <2>1
    <3> HIDE DEF depth
    <3> QED
      BY <1>6, <1>7, <1>8, <2>1, <3>1, DepthStencilEffect DEF RendererStep
  <2>2. ~target.ok => depth = target
    OBVIOUS
  <2> HIDE DEF depth
  <2> QED
    BY <1>7, <2>1, <2>2, RendererSteps
<1> HIDE DEF depth
<1>10. depth \in Clients
  BY <1>9 DEF RendererStep, Outcome
<1>11. ASSUME ~depth.ok
       PROVE  RendererStep(c, d) /\ ~d.ok
  <2>1. [depth.renderer EXCEPT !.initialized = FALSE] \in Renderers
    BY <1>10 DEF Clients, Renderers
  <2>2. OnlyRenderer(depth, d) /\ d \in Clients /\ d.ok = depth.ok /\ d.faulted = depth.faulted
    BY <1>1, <1>10, <1>11, <2>1, RendererUpdate
  <2> QED
    BY <1>9, <1>11, <2>2 DEF RendererStep, Outcome, OnlyRenderer, SameApplication,
       SameResources, SamePicture
<1> QED
  BY <1>1, <1>9, <1>11

\* Steps on the HUD follow each other likewise.
HudStep(c, d) == Outcome(c, d) /\ OnlyHud(c, d)

\* Two of them are one.
LEMMA HudSteps ==
  ASSUME NEW c \in Clients, NEW d, NEW e, HudStep(c, d),
         d.ok => HudStep(d, e), ~d.ok => e = d
  PROVE  HudStep(c, e)
BY DEF HudStep, Outcome, OnlyHud, SameApplication, SameResources, SamePicture, Clients

\* The bitmap is one of the back buffer as it is.
LEMMA BitmapEffect ==
  ASSUME NEW c \in Clients, c.ok, c.hud.device, c.hud.targetBitmap = None, NEW failing,
         NEW d, d = CreateBackBufferResources(c, failing)
  PROVE  /\ HudStep(c, d)
         /\ d.ok => d.hud = [c.hud EXCEPT !.targetBitmap = c.renderer.backBuffer]
         /\ ~d.ok => d.hud = c.hud
<1> DEFINE made == Call(c, "HudBitmap", failing)
           new == [c.hud EXCEPT !.targetBitmap = c.renderer.backBuffer]
<1>1. made.ok => made = c
  BY CallOutcome
<1>2. d = Depends(c, "HudBitmap", failing, WithHud(c, new))
  BY <1>1 DEF CreateBackBufferResources, Require, Then, Depends, WithHud, Clients, Huds
<1>3. new \in Huds
  BY DEF Clients, Huds, Renderers
<1> HIDE DEF new
<1>4. /\ Outcome(c, d) /\ OnlyHud(c, d)
      /\ d.ok => d.hud = new
      /\ ~d.ok => d.hud = c.hud
  BY <1>2, <1>3, CallThenHud
<1> QED
  BY <1>4 DEF new, HudStep

-----------------------------------------------------------------------------
(* The loop.                                                               *)

\* The application runs, and all it draws with has the size it was last told.
Ready(c) ==
    /\ c.running /\ c.exitCode = 0 /\ c.ok /\ ~c.faulted
    /\ Whole(c.renderer, c.told)
    /\ c.hud.initialized /\ c.hud.device /\ c.hud.targetBitmap = c.told
    /\ ~c.hud.frameActive
    /\ c.ui.initialized /\ ~c.ui.frameActive
    /\ c.repository = Resources /\ c.renderObjects = {"Arena"}
    /\ c.game.gamePlayState # None => c.game.connection = "identified"

\* A failure has requested the exit.
Exiting(c) == ~c.running /\ c.exitCode = 1 /\ c.faulted

Loop(c) == c \in Clients /\ (Ready(c) \/ Exiting(c))

\* A size that is told while the application runs leaves it ready for that
\* size, or exiting.
LEMMA ResizedEffect ==
  ASSUME NEW c \in Clients, Ready(c), NEW size \in Sizes, NEW failing,
         NEW d, d = HandleWindowResized(c, size, failing)
  PROVE  Loop(d) /\ d.game = c.game /\ d.shown = c.shown
<1> DEFINE free == [c.hud EXCEPT !.frameActive = FALSE, !.targetBitmap = None]
           released == WithHud([c EXCEPT !.told = size], free)
           resized == Resize(released, size, failing)
           exiting == IF resized.ok THEN resized
                      ELSE [resized EXCEPT !.exitCode = 1, !.running = FALSE, !.ok = TRUE]
           restored == CreateBackBufferResources(exiting, failing)
<1>1. /\ free \in Huds /\ free.initialized /\ free.device /\ free.targetBitmap = None
      /\ ~free.frameActive
  BY DEF Ready, Clients, Huds, Views
<1>2. /\ released = ReleaseBackBufferResources([c EXCEPT !.told = size])
      /\ released \in Clients /\ released.hud = free /\ released.ok /\ ~released.faulted
      /\ released.renderer = c.renderer /\ released.ui = c.ui /\ released.told = size
      /\ released.game = c.game /\ released.shown = c.shown
      /\ released.repository = c.repository /\ released.renderObjects = c.renderObjects
      /\ released.running /\ released.exitCode = 0
  <2>1. released = ReleaseBackBufferResources([c EXCEPT !.told = size])
    BY DEF ReleaseBackBufferResources, WithHud, Clients, Huds
  <2> HIDE DEF free
  <2>2. released \in Clients
    BY <1>1 DEF WithHud, Clients
  <2> QED
    BY <1>1, <2>1, <2>2 DEF WithHud, Clients, Ready
<1> HIDE DEF released
<1>3. /\ RendererStep(released, resized)
      /\ resized.ok => Whole(resized.renderer, size)
  <2>1. released.renderer.initialized /\ released.renderer.device
    BY <1>2 DEF Ready, Whole
  <2> HIDE DEF free
  <2> QED
    BY <1>1, <1>2, <2>1, ResizeEffect
<1> HIDE DEF resized
<1>4. /\ exiting \in Clients /\ exiting.ok /\ exiting.hud = free
      /\ exiting.ui = c.ui /\ exiting.told = size
      /\ exiting.game = c.game /\ exiting.shown = c.shown
      /\ exiting.repository = c.repository /\ exiting.renderObjects = c.renderObjects
      /\ \/ /\ exiting.running /\ exiting.exitCode = 0 /\ ~exiting.faulted
            /\ Whole(exiting.renderer, size)
         \/ Exiting(exiting)
  <2>1. CASE resized.ok
    <3>1. exiting = resized
      BY <2>1
    <3> HIDE DEF exiting, free
    <3> QED
      BY <1>2, <1>3, <2>1, <3>1 DEF RendererStep, Outcome, OnlyRenderer, SameApplication,
         SameResources, SamePicture
  <2>2. CASE ~resized.ok
    <3>1. exiting = [resized EXCEPT !.exitCode = 1, !.running = FALSE, !.ok = TRUE]
      BY <2>2
    <3>2. resized \in Clients
      BY <1>3 DEF RendererStep, Outcome
    <3> HIDE DEF exiting, free
    <3>3. exiting \in Clients /\ exiting.ok /\ ~exiting.running /\ exiting.exitCode = 1
      BY <3>1, <3>2 DEF Clients
    <3>4. /\ exiting.hud = resized.hud /\ exiting.ui = resized.ui /\ exiting.told = resized.told
          /\ exiting.game = resized.game /\ exiting.shown = resized.shown
          /\ exiting.repository = resized.repository
          /\ exiting.renderObjects = resized.renderObjects
          /\ exiting.faulted = resized.faulted
      BY <3>1, <3>2 DEF Clients
    <3> QED
      BY <1>2, <1>3, <2>2, <3>3, <3>4 DEF RendererStep, Outcome, OnlyRenderer,
         SameApplication, SameResources, SamePicture, Exiting
  <2> QED
    BY <2>1, <2>2
<1>5. d = IF restored.ok THEN [restored EXCEPT !.ok = TRUE]
          ELSE [restored EXCEPT !.exitCode = 1, !.running = FALSE, !.ok = TRUE]
  <2>1. exiting = [OrElse(resized, RequestExit) EXCEPT !.ok = TRUE]
    BY <1>3 DEF OrElse, RequestExit, RendererStep, Outcome, Clients
  <2>2. d = [OrElse(Then(Require(exiting, exiting.hud.initialized),
                         LAMBDA e : CreateBackBufferResources(e, failing)), RequestExit)
                EXCEPT !.ok = TRUE]
    <3> HIDE DEF exiting
    <3> QED
      BY <1>2, <2>1 DEF HandleWindowResized, Ready, resized
  <2> HIDE DEF exiting, free
  <2>3. restored = Then(Require(exiting, exiting.hud.initialized),
                        LAMBDA e : CreateBackBufferResources(e, failing))
    BY <1>1, <1>4 DEF Then, Require
  <2>4. d = [OrElse(restored, RequestExit) EXCEPT !.ok = TRUE]
    BY <2>2, <2>3
  <2> HIDE DEF restored
  <2> QED
    BY <2>4 DEF OrElse, RequestExit
<1> HIDE DEF exiting
<1>6. /\ HudStep(exiting, restored)
      /\ restored.ok => restored.hud = [free EXCEPT !.targetBitmap = exiting.renderer.backBuffer]
  <2> HIDE DEF free
  <2> QED
    BY <1>1, <1>4, BitmapEffect
<1> HIDE DEF restored
<1>7. restored \in Clients
  BY <1>6 DEF HudStep, Outcome
<1>8. CASE ~restored.ok
  <2>1. d = [restored EXCEPT !.exitCode = 1, !.running = FALSE, !.ok = TRUE]
    BY <1>5, <1>8
  <2>2. /\ d \in Clients /\ ~d.running /\ d.exitCode = 1 /\ d.faulted = restored.faulted
        /\ d.game = restored.game /\ d.shown = restored.shown
    BY <1>7, <2>1 DEF Clients
  <2> QED
    BY <1>4, <1>6, <1>8, <2>2 DEF Loop, Exiting, HudStep, Outcome, OnlyHud, SameApplication,
       SamePicture
<1>9. CASE restored.ok
  <2>1. d = restored
    BY <1>5, <1>7, <1>9 DEF Clients
  <2>2. /\ d.game = c.game /\ d.shown = c.shown /\ d.told = size /\ d.ui = c.ui
        /\ d.repository = c.repository /\ d.renderObjects = c.renderObjects
        /\ d.running = exiting.running /\ d.exitCode = exiting.exitCode
        /\ d.faulted = exiting.faulted /\ d.renderer = exiting.renderer
    BY <1>4, <1>6, <1>9, <2>1 DEF HudStep, Outcome, OnlyHud, SameApplication, SameResources,
       SamePicture
  <2>3. /\ d.hud.initialized /\ d.hud.device /\ ~d.hud.frameActive
        /\ d.hud.targetBitmap = exiting.renderer.backBuffer
    BY <1>1, <1>6, <1>9, <2>1 DEF Huds
  <2>4. CASE Exiting(exiting)
    BY <1>7, <2>1, <2>2, <2>4 DEF Loop, Exiting
  <2>5. CASE ~Exiting(exiting)
    BY <1>4, <1>7, <1>9, <2>1, <2>2, <2>3, <2>5 DEF Loop, Ready, Whole
  <2> QED
    BY <2>4, <2>5
<1> QED
  BY <1>8, <1>9

-----------------------------------------------------------------------------
(* The start.                                                              *)

\* The HUD draws on the back buffer of the renderer it was made for.
LEMMA HudMade ==
  ASSUME NEW c \in Clients, c.ok, c.hud = NoHud, c.renderer.device, NEW failing,
         NEW d, d = InitializeHud(c, failing)
  PROVE  /\ HudStep(c, d)
         /\ d.ok => /\ d.hud.initialized /\ d.hud.device /\ ~d.hud.frameActive
                    /\ d.hud.targetBitmap = c.renderer.backBuffer
<1> DEFINE made == [NoHud EXCEPT !.device = TRUE]
           device == Depends(c, "HudDevice", failing, WithHud(c, made))
           full == [made EXCEPT !.targetBitmap = c.renderer.backBuffer]
           bitmap == IF device.ok THEN CreateBackBufferResources(device, failing) ELSE device
           ready == IF bitmap.ok THEN Call(bitmap, "HudBrushes", failing) ELSE bitmap
           final == [ready.hud EXCEPT !.initialized = TRUE]
<1>1. d = IF ready.ok THEN WithHud(ready, final) ELSE WithHud(ready, NoHud)
  <2>1. Require(c, ~c.hud.initialized /\ c.renderer.device) = c
    BY DEF Require, NoHud
  <2>2. Call(c, "HudDevice", failing).ok => Call(c, "HudDevice", failing) = c
    BY CallOutcome
  <2>3. device = Then(Call(Require(c, ~c.hud.initialized /\ c.renderer.device),
                           "HudDevice", failing),
                      LAMBDA e : [e EXCEPT !.hud.device = TRUE])
    BY <2>1, <2>2 DEF Depends, WithHud, Then, Clients
  <2>4. bitmap = Then(device, LAMBDA e : CreateBackBufferResources(e, failing))
    BY DEF Then
  <2>5. ready = Then(bitmap, LAMBDA e : Call(e, "HudBrushes", failing))
    BY DEF Then
  <2> HIDE DEF device, bitmap, ready
  <2>6. d = OrElse(Then(ready, LAMBDA e : [e EXCEPT !.hud.initialized = TRUE]), ShutdownHud)
    BY <2>3, <2>4, <2>5 DEF InitializeHud
  <2> QED
    BY <2>6 DEF Then, OrElse, ShutdownHud, WithHud
<1>2. made \in Huds /\ NoHud \in Huds /\ made.device /\ made.targetBitmap = None
  BY DEF NoHud, Huds, Views
<1>3. /\ HudStep(c, device)
      /\ device.ok => device.hud = made
  <2> HIDE DEF made
  <2> QED
    BY <1>2, CallThenHud DEF HudStep
<1> HIDE DEF device
<1>4. device \in Clients /\ device.renderer = c.renderer
  BY <1>3 DEF HudStep, Outcome, OnlyHud
<1>5. /\ HudStep(c, bitmap)
      /\ bitmap.ok => bitmap.hud = full
  <2>1. ASSUME device.ok
        PROVE  HudStep(device, bitmap) /\ (bitmap.ok => bitmap.hud = full)
    <3>1. bitmap = CreateBackBufferResources(device, failing)
      BY <2>1
    <3> HIDE DEF bitmap, made
    <3> QED
      BY <1>2, <1>3, <1>4, <2>1, <3>1, BitmapEffect
  <2>2. ~device.ok => bitmap = device
    OBVIOUS
  <2> HIDE DEF bitmap
  <2> QED
    BY <1>3, <2>1, <2>2, HudSteps
<1> HIDE DEF bitmap
<1>6. bitmap \in Clients
  BY <1>5 DEF HudStep, Outcome
<1>7. /\ HudStep(c, ready)
      /\ ready.ok => ready.hud = full
  <2>1. ASSUME bitmap.ok
        PROVE  HudStep(bitmap, ready) /\ (ready.ok => ready = bitmap)
    BY <1>6, <2>1, CallOutcome DEF HudStep, OnlyHud, SameApplication, SameResources,
       SamePicture
  <2>2. ~bitmap.ok => ready = bitmap
    OBVIOUS
  <2>3. HudStep(c, ready)
    <3> HIDE DEF ready
    <3> QED
      BY <1>5, <2>1, <2>2, HudSteps
  <2>4. ready.ok => bitmap.ok
    BY <2>2
  <2> QED
    BY <1>5, <2>1, <2>3, <2>4
<1> HIDE DEF ready
<1>8. ready \in Clients
  BY <1>7 DEF HudStep, Outcome
<1>9. /\ final \in Huds
      /\ ready.ok => /\ final.initialized /\ final.device /\ ~final.frameActive
                     /\ final.targetBitmap = c.renderer.backBuffer
  <2>1. final \in Huds
    BY <1>8 DEF Clients, Huds
  <2>2. ready.ok => final = [full EXCEPT !.initialized = TRUE]
    BY <1>7
  <2> HIDE DEF final
  <2> QED
    BY <2>1, <2>2 DEF NoHud
<1> HIDE DEF final, full, made
<1>10. \E h \in Huds : d = WithHud(ready, h) /\ (ready.ok => h = final)
  BY <1>1, <1>2, <1>9
<1>11. /\ d \in Clients /\ OnlyHud(ready, d) /\ d.ok = ready.ok /\ d.faulted = ready.faulted
       /\ ready.ok => d.hud = final
  BY <1>8, <1>10, HudUpdate
<1>12. HudStep(c, d)
  BY <1>7, <1>11 DEF HudStep, Outcome, OnlyHud, SameApplication, SameResources, SamePicture
<1> QED
  BY <1>9, <1>11, <1>12

\* Steps on the network UI follow each other, too.
UiStep(c, d) == Outcome(c, d) /\ OnlyUi(c, d)

\* Two of them are one.
LEMMA UiSteps ==
  ASSUME NEW c \in Clients, NEW d, NEW e, UiStep(c, d),
         d.ok => UiStep(d, e), ~d.ok => e = d
  PROVE  UiStep(c, e)
BY DEF UiStep, Outcome, OnlyUi, SameApplication, SameResources, SamePicture, Clients

\* The UI is made with all its parts, or given back.
LEMMA UiMade ==
  ASSUME NEW c \in Clients, c.ok, c.ui = NoUi, c.window.created, c.renderer.device,
         NEW failing, NEW d, d = InitializeUi(c, failing)
  PROVE  /\ UiStep(c, d)
         /\ d.ok => d.ui.initialized /\ ~d.ui.frameActive
<1> DEFINE new == [NoUi EXCEPT !.context = TRUE]
           context == WithUi(c, new)
           backend == [new EXCEPT !.win32Backend = TRUE]
           win32 == Depends(context, "UiWindow", failing, WithUi(context, backend))
           full == [backend EXCEPT !.directX11Backend = TRUE, !.initialized = TRUE]
           ready == IF win32.ok THEN Depends(win32, "UiDevice", failing, WithUi(win32, full))
                                ELSE win32
<1>1. /\ new \in Uis /\ backend \in Uis /\ full \in Uis /\ NoUi \in Uis
      /\ full.initialized /\ ~full.frameActive
  BY DEF NoUi, Uis
<1>2. context \in Clients /\ UiStep(c, context) /\ context.ok /\ context.ui = new
  <2> HIDE DEF new
  <2> QED
    BY <1>1, UiUpdate DEF UiStep, Outcome
<1>3. /\ UiStep(context, win32)
      /\ win32.ok => win32.ui = backend
  <2> HIDE DEF context, backend
  <2> QED
    BY <1>1, <1>2, CallThenUi DEF UiStep
<1>4. UiStep(c, win32) /\ win32 \in Clients
  <2> HIDE DEF context, win32
  <2> QED
    BY <1>2, <1>3, UiSteps DEF UiStep, Outcome
<1>5. /\ UiStep(c, ready)
      /\ ready.ok => ready.ui = full
  <2>1. ASSUME win32.ok
        PROVE  UiStep(win32, ready) /\ (ready.ok => ready.ui = full)
    <3>1. ready = Depends(win32, "UiDevice", failing, WithUi(win32, full))
      BY <2>1
    <3> HIDE DEF ready, win32, full
    <3> QED
      BY <1>1, <1>4, <2>1, <3>1, CallThenUi DEF UiStep
  <2>2. ~win32.ok => ready = win32
    OBVIOUS
  <2> HIDE DEF ready, win32
  <2> QED
    BY <1>4, <2>1, <2>2, UiSteps
<1>6. d = IF ready.ok THEN ready ELSE WithUi(ready, NoUi)
  <2>1. Require(c, ~c.ui.initialized /\ c.window.created /\ c.renderer.device) = c
    BY DEF Require, NoUi
  <2>2. context = Then(Require(c, ~c.ui.initialized /\ c.window.created /\ c.renderer.device),
                       LAMBDA e : [e EXCEPT !.ui.context = TRUE])
    BY <2>1 DEF Then, WithUi, Clients
  <2>3. win32 = Then(Then(context, LAMBDA e : Call(e, "UiWindow", failing)),
                     LAMBDA e : [e EXCEPT !.ui.win32Backend = TRUE])
    <3>1. Call(context, "UiWindow", failing).ok => Call(context, "UiWindow", failing) = context
      <4> HIDE DEF context
      <4> QED
        BY <1>2, CallOutcome
    <3>2. WithUi(context, backend) = [context EXCEPT !.ui.win32Backend = TRUE]
      <4> HIDE DEF context, new
      <4> QED
        BY <1>2 DEF WithUi, Clients
    <3> HIDE DEF context, backend
    <3> QED
      BY <1>2, <3>1, <3>2 DEF Then, Depends
  <2>4. ready = Then(Then(win32, LAMBDA e : Call(e, "UiDevice", failing)),
                     LAMBDA e : [e EXCEPT !.ui.directX11Backend = TRUE, !.ui.initialized = TRUE])
    <3>1. win32.ok /\ Call(win32, "UiDevice", failing).ok
            => Call(win32, "UiDevice", failing) = win32
      <4> HIDE DEF win32
      <4> QED
        BY <1>4, CallOutcome
    <3>2. win32.ok => WithUi(win32, full) = [win32 EXCEPT !.ui.directX11Backend = TRUE,
                                                          !.ui.initialized = TRUE]
      <4> HIDE DEF win32, backend
      <4> QED
        BY <1>3, <1>4 DEF WithUi, Clients
    <3> HIDE DEF win32, full
    <3> QED
      BY <3>1, <3>2 DEF Then, Depends
  <2> HIDE DEF ready, win32, context
  <2> QED
    BY <2>2, <2>3, <2>4 DEF InitializeUi, OrElse, ShutdownUi, WithUi
<1> HIDE DEF ready, full
<1>7. ready \in Clients
  BY <1>5 DEF UiStep, Outcome
<1>8. CASE ~ready.ok
  <2>1. d = WithUi(ready, NoUi) /\ NoUi \in Uis
    BY <1>1, <1>6, <1>8
  <2>2. OnlyUi(ready, d) /\ d \in Clients /\ d.ok = ready.ok /\ d.faulted = ready.faulted
    BY <1>7, <2>1, UiUpdate
  <2> QED
    BY <1>5, <1>8, <2>2 DEF UiStep, Outcome, OnlyUi, SameApplication, SameResources, SamePicture
<1> QED
  BY <1>1, <1>5, <1>6, <1>8

\* Only the repository and the render objects differ.
ResourceStep(c, d) ==
    /\ Outcome(c, d) /\ SameApplication(c, d) /\ SamePicture(c, d)
    /\ d.renderer = c.renderer /\ d.hud = c.hud /\ d.ui = c.ui

\* One resource comes to the repository; nothing is made after a failure.
Obtained(c, resource, failing) == IF c.ok THEN CreateResource(c, resource, failing) ELSE c

\* A resource that was obtained is one more in the repository.
LEMMA ResourceMade ==
  ASSUME NEW b \in Clients, b.renderer.initialized, NEW c, ResourceStep(b, c),
         NEW resource \in Resources, NEW failing,
         NEW d, d = Obtained(c, resource, failing)
  PROVE  /\ ResourceStep(b, d)
         /\ d.ok => c.ok /\ d.repository = c.repository \cup {resource}
<1> DEFINE made == Call(c, resource, failing)
<1>1. c \in Clients
  BY DEF ResourceStep, Outcome
<1>2. CASE ~c.ok
  <2>1. d = c
    BY <1>2 DEF Obtained
  <2> QED
    BY <1>2, <2>1
<1>3. CASE c.ok
  <2>1. d = IF made.ok THEN [made EXCEPT !.repository = @ \cup {resource}] ELSE made
    <3>1. Require(c, c.renderer.initialized) = c
      BY DEF Require, ResourceStep
    <3> QED
      BY <1>3, <3>1 DEF Obtained, Then, CreateResource
  <2>2. /\ Outcome(c, made) /\ OnlyRenderer(c, made) /\ made.renderer = c.renderer
        /\ made.ok => made = c
    <3>1. CASE made.ok
      BY <1>1, <1>3, <3>1, CallOutcome DEF OnlyRenderer, SameApplication, SameResources,
         SamePicture
    <3>2. CASE ~made.ok
      BY <1>1, <1>3, <3>2, CallOutcome DEF OnlyHud, OnlyRenderer
    <3> QED
      BY <3>1, <3>2
  <2> HIDE DEF made
  <2>3. CASE ~made.ok
    <3>1. d = made
      BY <2>1, <2>3
    <3> QED
      BY <2>2, <2>3, <3>1 DEF ResourceStep, Outcome, OnlyRenderer, SameApplication, SamePicture
  <2>4. CASE made.ok
    <3> DEFINE more == c.repository \cup {resource}
    <3>1. d = [c EXCEPT !.repository = more]
      BY <1>3, <2>1, <2>2, <2>4
    <3>2. more \in SUBSET Resources
      BY <1>1 DEF Clients
    <3> HIDE DEF more
    <3>3. d \in Clients
      BY <1>1, <3>1, <3>2 DEF Clients
    <3>4. d.repository = more /\ d.ok = c.ok /\ d.faulted = c.faulted
          /\ d.renderer = c.renderer /\ d.hud = c.hud /\ d.ui = c.ui
          /\ SameApplication(c, d) /\ SamePicture(c, d)
      BY <1>1, <3>1 DEF Clients, SameApplication, SamePicture
    <3> QED
      BY <1>3, <3>3, <3>4 DEF more, ResourceStep, Outcome, SameApplication, SamePicture
  <2> QED
    BY <2>3, <2>4
<1> QED
  BY <1>2, <1>3

\* The repository holds every resource the render objects refer to.
LEMMA ResourcesMade ==
  ASSUME NEW c \in Clients, c.ok, c.renderer.initialized, c.repository = {}, NEW failing,
         NEW d, d = InitializeRenderResources(c, failing)
  PROVE  /\ ResourceStep(c, d)
         /\ d.ok => d.repository = Resources /\ d.renderObjects = {"Arena"}
<1> DEFINE arena  == Obtained(c, "ArenaMesh", failing)
           walls  == Obtained(arena, "ArenaTextures", failing)
           player == Obtained(walls, "PlayerMesh", failing)
           flame  == Obtained(player, "FlameTextures", failing)
           frost  == Obtained(flame, "FrostTextures", failing)
<1>1. d = Then(frost, LAMBDA e : [e EXCEPT !.renderObjects = {"Arena"}])
  <2>1. arena = Then(c, LAMBDA e : CreateResource(e, "ArenaMesh", failing))
    BY DEF Then, Obtained
  <2>2. walls = Then(arena, LAMBDA e : CreateResource(e, "ArenaTextures", failing))
    BY DEF Then, Obtained
  <2>3. player = Then(walls, LAMBDA e : CreateResource(e, "PlayerMesh", failing))
    BY DEF Then, Obtained
  <2>4. flame = Then(player, LAMBDA e : CreateResource(e, "FlameTextures", failing))
    BY DEF Then, Obtained
  <2>5. frost = Then(flame, LAMBDA e : CreateResource(e, "FrostTextures", failing))
    BY DEF Then, Obtained
  <2> HIDE DEF arena, walls, player, flame, frost
  <2> QED
    BY <2>1, <2>2, <2>3, <2>4, <2>5 DEF InitializeRenderResources
<1>2. ResourceStep(c, c)
  BY DEF ResourceStep, Outcome, SameApplication, SamePicture
<1>3. /\ ResourceStep(c, arena)
      /\ arena.ok => c.ok /\ arena.repository = c.repository \cup {"ArenaMesh"}
  BY <1>2, ResourceMade DEF Resources
<1> HIDE DEF arena
<1>4. /\ ResourceStep(c, walls)
      /\ walls.ok => arena.ok /\ walls.repository = arena.repository \cup {"ArenaTextures"}
  BY <1>3, ResourceMade DEF Resources
<1> HIDE DEF walls
<1>5. /\ ResourceStep(c, player)
      /\ player.ok => walls.ok /\ player.repository = walls.repository \cup {"PlayerMesh"}
  BY <1>4, ResourceMade DEF Resources
<1> HIDE DEF player
<1>6. /\ ResourceStep(c, flame)
      /\ flame.ok => player.ok /\ flame.repository = player.repository \cup {"FlameTextures"}
  BY <1>5, ResourceMade DEF Resources
<1> HIDE DEF flame
<1>7. /\ ResourceStep(c, frost)
      /\ frost.ok => flame.ok /\ frost.repository = flame.repository \cup {"FrostTextures"}
  BY <1>6, ResourceMade DEF Resources
<1> HIDE DEF frost
<1>8. frost \in Clients
  BY <1>7 DEF ResourceStep, Outcome
<1>9. frost.ok => frost.repository = Resources
  <2>1. frost.ok => frost.repository = {"ArenaMesh"} \cup {"ArenaTextures"} \cup {"PlayerMesh"}
                                         \cup {"FlameTextures"} \cup {"FrostTextures"}
    BY <1>3, <1>4, <1>5, <1>6, <1>7
  <2> QED
    BY <2>1 DEF Resources
<1>10. CASE ~frost.ok
  <2>1. d = frost
    BY <1>1, <1>10 DEF Then
  <2> QED
    BY <1>7, <1>10, <2>1
<1>11. CASE frost.ok
  <2>1. d = [frost EXCEPT !.renderObjects = {"Arena"}]
    BY <1>1, <1>11 DEF Then
  <2>2. d \in Clients /\ d.renderObjects = {"Arena"} /\ d.repository = Resources
    BY <1>8, <1>11, <1>9, <2>1 DEF Clients
  <2>3. d.ok = frost.ok /\ d.faulted = frost.faulted
        /\ d.renderer = frost.renderer /\ d.hud = frost.hud /\ d.ui = frost.ui
        /\ SameApplication(frost, d) /\ SamePicture(frost, d)
    BY <1>8, <2>1 DEF Clients, SameApplication, SamePicture
  <2> QED
    BY <1>7, <1>11, <2>2, <2>3 DEF ResourceStep, Outcome, SameApplication, SamePicture
<1> QED
  BY <1>10, <1>11

\* The application while it starts: it fails once a call of the platform has.
Starting(c) ==
    /\ c \in Clients /\ (c.ok <=> ~c.faulted)
    /\ ~c.running /\ c.exitCode = 1 /\ c.game = NoGame /\ c.told = InitialSize /\ c.shown = {}

\* Without a window nothing else is made.
HasWindow(c) ==
    c.ok => /\ c.window.created
            /\ c.renderer = NoRenderer /\ c.hud = NoHud /\ c.ui = NoUi
            /\ c.repository = {}
HasRenderer(c) ==
    c.ok => /\ c.window.created
            /\ Whole(c.renderer, InitialSize) /\ c.hud = NoHud /\ c.ui = NoUi
            /\ c.repository = {}
HasHud(c) ==
    c.ok => /\ c.window.created
            /\ Whole(c.renderer, InitialSize) /\ c.ui = NoUi
            /\ c.hud.initialized /\ c.hud.device /\ ~c.hud.frameActive
            /\ c.hud.targetBitmap = InitialSize
            /\ c.repository = {}
HasUi(c) ==
    c.ok => /\ c.window.created
            /\ Whole(c.renderer, InitialSize)
            /\ c.hud.initialized /\ c.hud.device /\ ~c.hud.frameActive
            /\ c.hud.targetBitmap = InitialSize
            /\ c.ui.initialized /\ ~c.ui.frameActive
            /\ c.repository = {}
HasResources(c) ==
    c.ok => /\ c.window.created
            /\ Whole(c.renderer, InitialSize)
            /\ c.hud.initialized /\ c.hud.device /\ ~c.hud.frameActive
            /\ c.hud.targetBitmap = InitialSize
            /\ c.ui.initialized /\ ~c.ui.frameActive
            /\ c.repository = Resources /\ c.renderObjects = {"Arena"}

\* The client Run starts with.
LEMMA NewClientTyped == NewClient \in Clients
<1>1. /\ NoWindow \in Windows /\ NoRenderer \in Renderers /\ NoHud \in Huds /\ NoUi \in Uis
  BY DEF NoWindow, Windows, NoRenderer, Renderers, NoHud, Huds, NoUi, Uis, Views
<1>2. NoGame \in Games
  BY DEF NoGame, Games
<1> QED
  BY <1>1, <1>2, ClientApplicationAssumption DEF NewClient, Clients

\* A window that is given a size, or shown, is a window.
LEMMA WindowUpdate ==
  ASSUME NEW w \in Windows, NEW size \in Sizes \cup {Empty}
  PROVE  /\ [w EXCEPT !.created = TRUE, !.size = size] \in Windows
         /\ [w EXCEPT !.size = size, !.resizeCallback = TRUE] \in Windows
         /\ [w EXCEPT !.size = size] \in Windows
BY DEF Windows

\* A start either makes everything, ready for the first frame, or fails with
\* the exit code of a failure.
LEMMA StartEffect ==
  ASSUME NEW size \in Sizes, NEW failing, NEW d, d = StartUp(NewClient, size, failing)
  PROVE  /\ d \in Clients /\ d.shown = {}
         /\ d.ok => Ready(d)
         /\ ~d.ok => Exiting(d)
<1> DEFINE called    == Call(NewClient, "Window", failing)
           window    == IF called.ok
                        THEN [called EXCEPT !.window.created = TRUE,
                                            !.window.size = InitialSize]
                        ELSE called
           shaders   == IF window.ok THEN Call(window, "ShaderPaths", failing) ELSE window
           renderer  == IF shaders.ok THEN InitializeRenderer(shaders, failing) ELSE shaders
           hud       == IF renderer.ok THEN InitializeHud(renderer, failing) ELSE renderer
           ui        == IF hud.ok THEN InitializeUi(hud, failing) ELSE hud
           resources == IF ui.ok THEN InitializeRenderResources(ui, failing) ELSE ui
           running   == IF resources.ok
                        THEN [resources EXCEPT !.window.size = size,
                                               !.window.resizeCallback = TRUE,
                                               !.running = TRUE, !.exitCode = 0]
                        ELSE resources
           connected == Call(running, "Connection", failing)
<1>1. d = IF ~running.ok THEN running
          ELSE IF connected.ok THEN connected
          ELSE [connected EXCEPT !.exitCode = 1, !.running = FALSE]
  <2>1. window = Then(called, LAMBDA e : [e EXCEPT !.window.created = TRUE,
                                                   !.window.size = InitialSize])
    BY DEF Then
  <2>2. shaders = Then(window, LAMBDA e : Call(e, "ShaderPaths", failing))
    BY DEF Then
  <2>3. renderer = Then(shaders, LAMBDA e : InitializeRenderer(e, failing))
    BY DEF Then
  <2>4. hud = Then(renderer, LAMBDA e : InitializeHud(e, failing))
    BY DEF Then
  <2>5. ui = Then(hud, LAMBDA e : InitializeUi(e, failing))
    BY DEF Then
  <2>6. resources = Then(ui, LAMBDA e : InitializeRenderResources(e, failing))
    BY DEF Then
  <2>7. running = Then(resources, LAMBDA e : [e EXCEPT !.window.size = size,
                                                       !.window.resizeCallback = TRUE,
                                                       !.running = TRUE, !.exitCode = 0])
    BY DEF Then
  <2> HIDE DEF window, shaders, renderer, hud, ui, resources, running
  <2>8. d = Then(running, LAMBDA e : OrElse(Call(e, "Connection", failing), RequestExit))
    BY <2>1, <2>2, <2>3, <2>4, <2>5, <2>6, <2>7 DEF StartUp
  <2> QED
    BY <2>8 DEF Then, OrElse, RequestExit
<1>2. Starting(window) /\ HasWindow(window)
  <2>1. NewClient.ok /\ ~NewClient.faulted /\ ~NewClient.running /\ NewClient.exitCode = 1
        /\ NewClient.game = NoGame /\ NewClient.told = InitialSize /\ NewClient.shown = {}
        /\ NewClient.renderer = NoRenderer /\ NewClient.hud = NoHud /\ NewClient.ui = NoUi
        /\ NewClient.repository = {}
    BY DEF NewClient
  <2>2. CASE called.ok
    <3>1. called = NewClient
      BY <2>1, <2>2, NewClientTyped, CallOutcome
    <3> HIDE DEF called
    <3>2. window = [NewClient EXCEPT !.window.created = TRUE, !.window.size = InitialSize]
      BY <2>2, <3>1
    <3>3. window \in Clients /\ window.window.created
      <4> DEFINE w == [NewClient.window EXCEPT !.created = TRUE, !.size = InitialSize]
      <4>1. w \in Windows /\ w.created
        BY NewClientTyped, WindowUpdate, ClientApplicationAssumption DEF Clients, Windows
      <4>2. window = [NewClient EXCEPT !.window = w]
        BY <3>2, NewClientTyped DEF Clients
      <4> HIDE DEF w, window
      <4> QED
        BY <4>1, <4>2, NewClientTyped DEF Clients
    <3>4. window.ok /\ ~window.faulted /\ ~window.running /\ window.exitCode = 1
          /\ window.game = NoGame /\ window.told = InitialSize /\ window.shown = {}
          /\ window.renderer = NoRenderer /\ window.hud = NoHud /\ window.ui = NoUi
          /\ window.repository = {}
      BY <2>1, <3>2, NewClientTyped DEF Clients
    <3> HIDE DEF window
    <3> QED
      BY <3>3, <3>4 DEF Starting, HasWindow
  <2>3. CASE ~called.ok
    <3>1. window = called
      BY <2>3
    <3>2. Outcome(NewClient, called) /\ OnlyRenderer(NewClient, called)
      BY <2>1, <2>3, NewClientTyped, CallOutcome
    <3> HIDE DEF called, window
    <3> QED
      BY <2>1, <2>3, <3>1, <3>2 DEF Outcome, OnlyRenderer, SameApplication, SameResources,
         SamePicture, Starting, HasWindow
  <2> QED
    BY <2>2, <2>3
<1> HIDE DEF window
<1>3. Starting(shaders) /\ HasWindow(shaders)
  <2>1. CASE window.ok
    <3>1. shaders = Call(window, "ShaderPaths", failing)
      BY <2>1
    <3> HIDE DEF shaders
    <3>2. Outcome(window, shaders) /\ (shaders.ok => shaders = window)
          /\ (~shaders.ok => OnlyRenderer(window, shaders))
      BY <1>2, <2>1, <3>1, CallOutcome DEF Starting
    <3> QED
      BY <1>2, <3>2 DEF Outcome, OnlyRenderer, SameApplication, SameResources, SamePicture,
         Starting, HasWindow
  <2>2. CASE ~window.ok
    BY <1>2, <2>2
  <2> QED
    BY <2>1, <2>2
<1> HIDE DEF shaders
<1>4. Starting(renderer) /\ HasRenderer(renderer)
  <2>1. CASE shaders.ok
    <3>1. renderer = InitializeRenderer(shaders, failing)
      BY <2>1
    <3> HIDE DEF renderer
    <3>2. /\ RendererStep(shaders, renderer)
          /\ renderer.ok => Whole(renderer.renderer, InitialSize)
      BY <1>3, <2>1, <3>1, RendererMade DEF Starting, HasWindow
    <3> QED
      BY <1>3, <2>1, <3>2 DEF RendererStep, Outcome, OnlyRenderer, SameApplication,
         SameResources, SamePicture, Starting, HasWindow, HasRenderer
  <2>2. CASE ~shaders.ok
    BY <1>3, <2>2 DEF HasRenderer
  <2> QED
    BY <2>1, <2>2
<1> HIDE DEF renderer
<1>5. Starting(hud) /\ HasHud(hud)
  <2>1. CASE renderer.ok
    <3>1. hud = InitializeHud(renderer, failing)
      BY <2>1
    <3>2. renderer.renderer.device /\ renderer.renderer.backBuffer = InitialSize
      BY <1>4, <2>1 DEF HasRenderer, Whole
    <3> HIDE DEF hud
    <3>3. /\ HudStep(renderer, hud)
          /\ hud.ok => /\ hud.hud.initialized /\ hud.hud.device /\ ~hud.hud.frameActive
                       /\ hud.hud.targetBitmap = InitialSize
      BY <1>4, <2>1, <3>1, <3>2, HudMade DEF Starting, HasRenderer
    <3> QED
      BY <1>4, <2>1, <3>3 DEF HudStep, Outcome, OnlyHud, SameApplication,
         SameResources, SamePicture, Starting, HasRenderer, HasHud
  <2>2. CASE ~renderer.ok
    BY <1>4, <2>2 DEF HasHud
  <2> QED
    BY <2>1, <2>2
<1> HIDE DEF hud
<1>6. Starting(ui) /\ HasUi(ui)
  <2>1. CASE hud.ok
    <3>1. ui = InitializeUi(hud, failing)
      BY <2>1
    <3> HIDE DEF ui
    <3>2. /\ UiStep(hud, ui)
          /\ ui.ok => ui.ui.initialized /\ ~ui.ui.frameActive
      BY <1>5, <2>1, <3>1, UiMade DEF Starting, HasHud, Whole
    <3> QED
      BY <1>5, <2>1, <3>2 DEF UiStep, Outcome, OnlyUi, SameApplication,
         SameResources, SamePicture, Starting, HasHud, HasUi
  <2>2. CASE ~hud.ok
    BY <1>5, <2>2 DEF HasUi
  <2> QED
    BY <2>1, <2>2
<1> HIDE DEF ui
<1>7. Starting(resources) /\ HasResources(resources)
  <2>1. CASE ui.ok
    <3>1. resources = InitializeRenderResources(ui, failing)
      BY <2>1
    <3> HIDE DEF resources
    <3>2. /\ ResourceStep(ui, resources)
          /\ resources.ok => /\ resources.repository = Resources
                             /\ resources.renderObjects = {"Arena"}
      BY <1>6, <2>1, <3>1, ResourcesMade DEF Starting, HasUi, Whole
    <3> QED
      BY <1>6, <2>1, <3>2 DEF ResourceStep, Outcome, SameApplication,
         SamePicture, Starting, HasUi, HasResources
  <2>2. CASE ~ui.ok
    BY <1>6, <2>2 DEF HasResources
  <2> QED
    BY <2>1, <2>2
<1> HIDE DEF resources
<1>8. CASE ~resources.ok
  <2>1. running = resources
    BY <1>8
  <2> QED
    BY <1>1, <1>7, <1>8, <2>1 DEF Starting, Exiting
<1>9. CASE resources.ok
  <2>1. running = [resources EXCEPT !.window.size = size, !.window.resizeCallback = TRUE,
                                    !.running = TRUE, !.exitCode = 0]
    BY <1>9
  <2> HIDE DEF running
  <2>2. running \in Clients
    <3> DEFINE w == [resources.window EXCEPT !.size = size, !.resizeCallback = TRUE]
    <3>1. w \in Windows
      BY <1>7, WindowUpdate DEF Starting, Clients
    <3>2. running = [resources EXCEPT !.window = w, !.running = TRUE, !.exitCode = 0]
      BY <1>7, <2>1 DEF Starting, Clients
    <3> HIDE DEF w
    <3> QED
      BY <1>7, <3>1, <3>2 DEF Starting, Clients
  <2>3. /\ running.running /\ running.exitCode = 0 /\ running.ok = resources.ok
        /\ running.faulted = resources.faulted /\ running.renderer = resources.renderer
        /\ running.hud = resources.hud /\ running.ui = resources.ui
        /\ running.repository = resources.repository
        /\ running.renderObjects = resources.renderObjects /\ running.game = resources.game
        /\ running.told = resources.told /\ running.shown = resources.shown
    BY <1>7, <2>1 DEF Starting, Clients
  <2>4. Ready(running) /\ running.shown = {}
    BY <1>7, <1>9, <2>2, <2>3 DEF Starting, HasResources, Ready, NoGame
  <2>5. /\ Outcome(running, connected)
        /\ connected.ok => connected = running
        /\ ~connected.ok => OnlyRenderer(running, connected)
    BY <2>2, <2>4, CallOutcome DEF Ready
  <2> HIDE DEF connected
  <2>6. CASE connected.ok
    BY <1>1, <2>2, <2>4, <2>5, <2>6 DEF Ready
  <2>7. CASE ~connected.ok
    <3>1. d = [connected EXCEPT !.exitCode = 1, !.running = FALSE]
      BY <1>1, <2>4, <2>7 DEF Ready
    <3>2. connected \in Clients /\ connected.faulted /\ connected.shown = {}
      BY <2>4, <2>5, <2>7 DEF Outcome, OnlyRenderer, SamePicture
    <3>3. d \in Clients
      BY <3>1, <3>2 DEF Clients
    <3>4. d.ok = connected.ok /\ d.shown = {} /\ d.faulted /\ ~d.running /\ d.exitCode = 1
      BY <3>1, <3>2 DEF Clients
    <3> QED
      BY <2>7, <3>3, <3>4 DEF Exiting
  <2> QED
    BY <2>6, <2>7
<1> QED
  BY <1>8, <1>9

-----------------------------------------------------------------------------
(* A frame.                                                                *)

\* A step of a frame: the application is ready for the next one, or a call of
\* the platform failed.
FrameStep(c, d) ==
    /\ d \in Clients /\ d.game = c.game
    /\ d.ok => Ready(d)
    /\ ~d.ok => d.faulted

\* The picture is empty, and the targets are bound.
LEMMA FrameBegun ==
  ASSUME NEW c \in Clients, Ready(c), NEW d, d = BeginFrame(c)
  PROVE  FrameStep(c, d) /\ d.ok /\ d.drawn = {} /\ d.renderer.bound
<1> DEFINE bound == [c.renderer EXCEPT !.bound = TRUE]
<1>1. d = [WithRenderer(c, bound) EXCEPT !.drawn = {}]
  <2>1. Require(c, /\ c.renderer.initialized
                   /\ c.renderer.renderTargetView # None
                   /\ c.renderer.depthStencilView # None) = c
    BY ClientApplicationAssumption DEF Require, Ready, Whole, Clients
  <2> QED
    BY <2>1 DEF BeginFrame, Then, BindRenderTargets, WithRenderer, Ready
<1>2. Whole(bound, c.told) /\ bound.bound
  BY DEF Ready, Whole, Renderers
<1> HIDE DEF bound
<1>3. d = [c EXCEPT !.renderer = bound, !.drawn = {}]
  BY <1>1 DEF WithRenderer
<1>4. d \in Clients
  BY <1>2, <1>3 DEF Clients, Whole
<1>5. /\ d.renderer = bound /\ d.drawn = {} /\ d.running = c.running /\ d.exitCode = c.exitCode
      /\ d.ok = c.ok /\ d.faulted = c.faulted /\ d.told = c.told /\ d.hud = c.hud /\ d.ui = c.ui
      /\ d.repository = c.repository /\ d.renderObjects = c.renderObjects /\ d.game = c.game
  BY <1>3 DEF Clients
<1> QED
  BY <1>2, <1>4, <1>5 DEF FrameStep, Ready

\* Every mesh and texture of what is drawn is in the repository.
LEMMA ObjectsDrawn ==
  ASSUME NEW c \in Clients, Ready(c), c.renderer.bound,
         NEW objects \in SUBSET (Players \cup {"Arena"}), NEW failing,
         NEW d, d = DrawRenderObjects(c, objects, failing)
  PROVE  /\ FrameStep(c, d)
         /\ d.ok => d.drawn = c.drawn \cup objects /\ d.renderer.bound
<1>1. CASE objects = {}
  <2>1. d = c
    BY <1>1 DEF DrawRenderObjects
  <2> QED
    BY <1>1, <2>1 DEF FrameStep, Ready
<1>2. CASE objects # {}
  <2> DEFINE made == Call(c, "DrawMesh", failing)
             more == c.drawn \cup objects
  <2>1. UNION {Uses(object) : object \in objects} \subseteq c.repository
    <3>1. \A object \in Players \cup {"Arena"} : Uses(object) \subseteq Resources
      BY DEF Players, Uses, Resources
    <3> QED
      BY <3>1 DEF Ready
  <2>2. d = Then(made, LAMBDA e : Draw(e, objects))
    <3>1. Require(c, /\ c.renderer.initialized
                     /\ UNION {Uses(object) : object \in objects} \subseteq c.repository) = c
      BY <2>1 DEF Require, Ready, Whole
    <3> QED
      BY <1>2, <3>1 DEF DrawRenderObjects
  <2>3. /\ made \in Clients /\ made.game = c.game
        /\ made.ok => made = c
        /\ ~made.ok => made.faulted
    BY CallOutcome DEF Ready, Outcome, OnlyRenderer, SameApplication
  <2> HIDE DEF made
  <2>4. CASE ~made.ok
    <3>1. d = made
      BY <2>2, <2>4 DEF Then
    <3> QED
      BY <2>3, <2>4, <3>1 DEF FrameStep
  <2>5. CASE made.ok
    <3>1. d = [c EXCEPT !.drawn = more]
      BY <2>2, <2>3, <2>5 DEF Then, Draw
    <3>2. more \in SUBSET Layers
      BY DEF Clients, Layers
    <3> HIDE DEF more
    <3>3. d \in Clients
      BY <3>1, <3>2 DEF Clients
    <3>4. /\ d.renderer = c.renderer /\ d.drawn = more /\ d.running = c.running
          /\ d.exitCode = c.exitCode /\ d.ok = c.ok /\ d.faulted = c.faulted /\ d.told = c.told
          /\ d.hud = c.hud /\ d.ui = c.ui /\ d.repository = c.repository
          /\ d.renderObjects = c.renderObjects /\ d.game = c.game
      BY <3>1 DEF Clients
    <3> QED
      BY <3>3, <3>4 DEF more, FrameStep, Ready
  <2> QED
    BY <2>4, <2>5
<1> QED
  BY <1>1, <1>2

\* The HUD comes on the picture, or its target is made anew.
LEMMA HudDrawn ==
  ASSUME NEW c \in Clients, Ready(c), NEW failing, NEW d, d = DrawHud(c, failing)
  PROVE  /\ FrameStep(c, d)
         /\ d.ok => \/ c.game.gamePlayState = None /\ d.drawn = c.drawn
                    \/ /\ c.game.gamePlayState # None
                       /\ d.drawn \in {c.drawn \cup {c.game.gamePlayState},
                                       c.drawn \cup {"Lost"}}
<1>1. CASE c.game.gamePlayState = None
  <2>1. d = c
    BY <1>1 DEF DrawHud
  <2> QED
    BY <1>1, <2>1 DEF FrameStep, Ready
<1>2. CASE c.game.gamePlayState # None
  <2> DEFINE hud == c.game.gamePlayState
             begun == WithHud(c, [c.hud EXCEPT !.frameActive = TRUE])
             unbound == [c.renderer EXCEPT !.bound = FALSE]
             ended == [c EXCEPT !.renderer = unbound,
                                !.hud = [c.hud EXCEPT !.frameActive = FALSE]]
  <2>1. d = EndHudFrame(begun, hud, failing)
    <3>1. Require(c, /\ c.hud.initialized /\ ~c.hud.frameActive
                     /\ c.hud.targetBitmap # None) = c
      BY ClientApplicationAssumption DEF Require, Ready, Clients
    <3>2. BeginHudFrame(c) = begun
      BY <3>1 DEF BeginHudFrame, Then, WithHud, Ready
    <3>3. begun.ok
      BY DEF WithHud, Clients, Ready
    <3> HIDE DEF begun
    <3> QED
      BY <1>2, <3>2, <3>3 DEF DrawHud, Then
  <2>2. ended = [begun EXCEPT !.hud.frameActive = FALSE, !.renderer.bound = FALSE]
    BY DEF WithHud, Clients, Huds, Renderers
  <2>3. Whole(unbound, c.told) /\ hud \in Layers
    <3>1. Whole(unbound, c.told)
      BY DEF Ready, Whole, Renderers
    <3>2. hud \in Layers
      BY <1>2 DEF Clients, Games, Layers
    <3> QED
      BY <3>1, <3>2
  <2> HIDE DEF unbound
  <2>4. /\ ended \in Clients /\ ended.renderer = unbound
        /\ ended.hud.initialized /\ ended.hud.device /\ ended.hud.targetBitmap = c.told
        /\ ~ended.hud.frameActive
        /\ ended.drawn = c.drawn /\ ended.running /\ ended.exitCode = 0
        /\ ended.ok /\ ~ended.faulted /\ ended.told = c.told /\ ended.ui = c.ui
        /\ ended.repository = c.repository /\ ended.renderObjects = c.renderObjects
        /\ ended.game = c.game
    <3>1. [c.hud EXCEPT !.frameActive = FALSE] \in Huds
      BY DEF Clients, Huds
    <3>2. ended \in Clients
      BY <2>3, <3>1 DEF Clients, Whole
    <3> QED
      BY <3>2 DEF Clients, Huds, Ready
  <2> HIDE DEF ended
  <2>5. CASE "RecreateTarget" \in failing
    <3> DEFINE lost == [ended.hud EXCEPT !.frameActive = FALSE, !.targetBitmap = None]
               more == ended.drawn \cup {"Lost"}
               released == [ended EXCEPT !.hud = lost, !.drawn = more]
    <3>1. d = CreateBackBufferResources(released, failing)
      <4>1. d = CreateBackBufferResources(
                    [ReleaseBackBufferResources(ended) EXCEPT !.drawn = @ \cup {"Lost"}], failing)
        <5> HIDE DEF begun
        <5> QED
          BY <2>1, <2>2, <2>5 DEF EndHudFrame
      <4>2. [ReleaseBackBufferResources(ended) EXCEPT !.drawn = @ \cup {"Lost"}] = released
        BY <2>4 DEF ReleaseBackBufferResources, Clients
      <4> HIDE DEF released
      <4> QED
        BY <4>1, <4>2
    <3>2. /\ lost \in Huds /\ lost.initialized /\ lost.device /\ ~lost.frameActive
          /\ lost.targetBitmap = None /\ more \in SUBSET Layers
      BY <2>4 DEF Clients, Huds, Views, Layers
    <3> HIDE DEF lost, more
    <3>3. /\ released \in Clients /\ released.hud = lost /\ released.drawn = more
          /\ released.ok /\ ~released.faulted /\ released.running /\ released.exitCode = 0
          /\ released.renderer = ended.renderer /\ released.ui = ended.ui
          /\ released.told = ended.told /\ released.game = ended.game
          /\ released.repository = ended.repository
          /\ released.renderObjects = ended.renderObjects
      BY <2>4, <3>2 DEF Clients
    <3> HIDE DEF released
    <3>4. /\ HudStep(released, d)
          /\ d.ok => d.hud = [lost EXCEPT !.targetBitmap = ended.renderer.backBuffer]
      BY <3>1, <3>2, <3>3, BitmapEffect
    <3>5. CASE ~d.ok
      BY <2>4, <3>3, <3>4, <3>5 DEF HudStep, Outcome, OnlyHud, SameApplication, FrameStep
    <3>6. CASE d.ok
      <4>1. /\ d.hud.initialized /\ d.hud.device /\ ~d.hud.frameActive
            /\ d.hud.targetBitmap = c.told
        BY <2>3, <2>4, <3>2, <3>4, <3>6 DEF Huds, Whole
      <4>2. /\ d \in Clients /\ ~d.faulted /\ d.running /\ d.exitCode = 0 /\ d.told = c.told
            /\ d.renderer = unbound /\ d.ui = c.ui /\ d.repository = c.repository
            /\ d.renderObjects = c.renderObjects /\ d.game = c.game
            /\ d.drawn = c.drawn \cup {"Lost"}
        BY <2>4, <3>3, <3>4, <3>6 DEF HudStep, Outcome, OnlyHud, SameApplication,
           SameResources, SamePicture, more
      <4> QED
        BY <1>2, <2>3, <3>6, <4>1, <4>2 DEF FrameStep, Ready
    <3> QED
      BY <3>5, <3>6
  <2>6. CASE "RecreateTarget" \notin failing
    <3> DEFINE made == Call(ended, "EndDraw", failing)
               more == ended.drawn \cup {hud}
    <3>1. d = Then(made, LAMBDA e : [e EXCEPT !.drawn = @ \cup {hud}])
      <4> HIDE DEF begun, hud
      <4> QED
        BY <2>1, <2>2, <2>6 DEF EndHudFrame
    <3>2. /\ made \in Clients /\ made.game = c.game
          /\ made.ok => made = ended
          /\ ~made.ok => made.faulted
      BY <2>4, CallOutcome DEF Outcome, OnlyRenderer, SameApplication
    <3> HIDE DEF made
    <3>3. CASE ~made.ok
      <4>1. d = made
        BY <3>1, <3>3 DEF Then
      <4> QED
        BY <3>2, <3>3, <4>1 DEF FrameStep
    <3>4. CASE made.ok
      <4>1. d = [ended EXCEPT !.drawn = more]
        BY <2>4, <3>1, <3>2, <3>4 DEF Then
      <4>2. more \in SUBSET Layers
        BY <2>3, <2>4 DEF Clients
      <4> HIDE DEF more
      <4>3. d \in Clients
        BY <2>4, <4>1, <4>2 DEF Clients
      <4>4. /\ d.renderer = ended.renderer /\ d.drawn = more /\ d.running = ended.running
            /\ d.exitCode = ended.exitCode /\ d.ok = ended.ok /\ d.faulted = ended.faulted
            /\ d.told = ended.told /\ d.hud = ended.hud /\ d.ui = ended.ui
            /\ d.repository = ended.repository /\ d.renderObjects = ended.renderObjects
            /\ d.game = ended.game
        BY <2>4, <4>1 DEF Clients
      <4>5. Ready(d)
        BY <2>3, <2>4, <4>4 DEF Ready
      <4> QED
        BY <1>2, <2>4, <4>3, <4>4, <4>5 DEF more, FrameStep
    <3> QED
      BY <3>3, <3>4
  <2> QED
    BY <2>5, <2>6
<1> QED
  BY <1>1, <1>2

\* The targets are bound again, so the network window comes on the picture.
LEMMA UiDrawn ==
  ASSUME NEW c \in Clients, Ready(c), NEW d, d = DrawNetworkUi(c)
  PROVE  FrameStep(c, d) /\ d.ok /\ d.drawn = c.drawn \cup {"NetworkWindow"}
<1> DEFINE more == c.drawn \cup {"NetworkWindow"}
           bound == [c.renderer EXCEPT !.bound = TRUE]
           ui == [c.ui EXCEPT !.frameActive = FALSE]
           begun == [c EXCEPT !.ui.frameActive = TRUE]
           rebound == [begun EXCEPT !.renderer.bound = TRUE]
           ended == [rebound EXCEPT !.ui.frameActive = FALSE]
<1>1. d = Draw(ended, {"NetworkWindow"})
  <2>1. BeginUiFrame(c) = begun
    <3>1. Require(c, c.ui.initialized /\ ~c.ui.frameActive) = c
      BY DEF Require, Ready
    <3> QED
      BY <3>1 DEF BeginUiFrame, Then, Ready
  <2>2. begun.ok /\ rebound.ok /\ rebound.ui.initialized /\ rebound.ui.frameActive
    BY DEF Clients, Uis, Ready
  <2>3. BindRenderTargets(begun) = rebound
    BY DEF BindRenderTargets
  <2> HIDE DEF begun, rebound
  <2>4. d = EndUiFrame(rebound)
    BY <2>1, <2>2, <2>3 DEF DrawNetworkUi, Then
  <2>5. Require(rebound, rebound.ui.initialized /\ rebound.ui.frameActive) = rebound
    BY <2>2 DEF Require
  <2> QED
    BY <2>2, <2>4, <2>5 DEF EndUiFrame, Then
<1>2. ended = [c EXCEPT !.renderer = bound, !.ui = ui]
  BY DEF Clients, Uis, Renderers
<1>3. Whole(bound, c.told) /\ bound.bound
  BY DEF Ready, Whole, Renderers
<1>4. ui \in Uis /\ ui.initialized /\ ~ui.frameActive
  BY DEF Clients, Uis, Ready
<1> HIDE DEF bound, ui, ended
<1>5. ended.renderer = bound /\ ended.drawn = c.drawn
  BY <1>2 DEF Clients
<1>6. d = [c EXCEPT !.renderer = bound, !.ui = ui, !.drawn = more]
  <2>1. d = [ended EXCEPT !.drawn = more]
    BY <1>1, <1>3, <1>5 DEF Draw
  <2> HIDE DEF more
  <2> QED
    BY <1>2, <2>1
<1>7. more \in SUBSET Layers
  BY DEF Clients, Layers
<1> HIDE DEF more
<1>8. d \in Clients
  BY <1>3, <1>4, <1>6, <1>7 DEF Clients, Whole
<1>9. /\ d.renderer = bound /\ d.drawn = more /\ d.running = c.running
      /\ d.exitCode = c.exitCode /\ d.ok = c.ok /\ d.faulted = c.faulted
      /\ d.told = c.told /\ d.hud = c.hud /\ d.ui = ui
      /\ d.repository = c.repository /\ d.renderObjects = c.renderObjects
      /\ d.game = c.game
  BY <1>6 DEF Clients
<1> QED
  BY <1>3, <1>4, <1>8, <1>9 DEF more, FrameStep, Ready

\* What was drawn is shown when it is presented.
LEMMA FrameEnded ==
  ASSUME NEW c \in Clients, Ready(c), NEW failing, NEW d, d = EndFrame(c, failing)
  PROVE  FrameStep(c, d) /\ (d.ok => d.shown = c.drawn)
<1> DEFINE made == Call(c, "Present", failing)
<1>1. d = Then(made, LAMBDA e : [e EXCEPT !.shown = e.drawn])
  <2>1. Require(c, c.renderer.initialized) = c
    BY DEF Require, Ready, Whole
  <2> QED
    BY <2>1 DEF EndFrame
<1>2. /\ made \in Clients /\ made.game = c.game
      /\ made.ok => made = c
      /\ ~made.ok => made.faulted
  BY CallOutcome DEF Ready, Outcome, OnlyRenderer, SameApplication
<1> HIDE DEF made
<1>3. CASE ~made.ok
  <2>1. d = made
    BY <1>1, <1>3 DEF Then
  <2> QED
    BY <1>2, <1>3, <2>1 DEF FrameStep
<1>4. CASE made.ok
  <2>1. d = [c EXCEPT !.shown = c.drawn]
    BY <1>1, <1>2, <1>4 DEF Then
  <2>2. d \in Clients
    BY <2>1 DEF Clients
  <2>3. /\ d.shown = c.drawn /\ d.renderer = c.renderer /\ d.running = c.running
        /\ d.exitCode = c.exitCode /\ d.ok = c.ok /\ d.faulted = c.faulted
        /\ d.told = c.told /\ d.hud = c.hud /\ d.ui = c.ui
        /\ d.repository = c.repository /\ d.renderObjects = c.renderObjects
        /\ d.game = c.game
    BY <2>1 DEF Clients
  <2> QED
    BY <2>2, <2>3 DEF FrameStep, Ready
<1> QED
  BY <1>3, <1>4

\* What belongs on a picture of the game, and what is there after a frame.
Due(game) ==
    IF game.connection # "identified" THEN {"NetworkWindow"}
    ELSE {"NetworkWindow", "Arena"} \cup game.entries \cup
         (IF game.gamePlayState = None THEN {} ELSE {game.gamePlayState})
Complete(game, picture) ==
    \/ picture = Due(game)
    \/ picture = (Due(game) \ {game.gamePlayState}) \cup {"Lost"}

\* Two steps of a frame are one.
LEMMA FrameSteps ==
  ASSUME NEW c, NEW d, NEW e, FrameStep(c, d),
         d.ok => FrameStep(d, e), ~d.ok => e = d
  PROVE  FrameStep(c, e)
BY DEF FrameStep

\* The world on the picture, before the network window.
LEMMA WorldDrawn ==
  ASSUME NEW c \in Clients, Ready(c), c.drawn = {}, c.renderer.bound, NEW failing,
         NEW d, d = DrawWorld(c, failing)
  PROVE  /\ FrameStep(c, d)
         /\ d.ok => Complete(c.game, d.drawn \cup {"NetworkWindow"})
<1>1. CASE c.game.connection # "identified"
  <2>1. d = c
    BY <1>1 DEF DrawWorld
  <2> QED
    BY <1>1, <2>1 DEF FrameStep, Ready, Complete, Due
<1>2. CASE c.game.connection = "identified"
  <2> DEFINE arena == DrawRenderObjects(c, c.renderObjects, failing)
             players == IF arena.ok THEN DrawRenderObjects(arena, arena.game.entries, failing)
                                    ELSE arena
  <2>1. d = IF players.ok THEN DrawHud(players, failing) ELSE players
    <3>1. players = Then(arena, LAMBDA e : DrawRenderObjects(e, e.game.entries, failing))
      BY DEF Then
    <3> HIDE DEF players
    <3>2. d = Then(players, LAMBDA e : DrawHud(e, failing))
      BY <1>2, <3>1 DEF DrawWorld
    <3> QED
      BY <3>2 DEF Then
  <2>2. /\ FrameStep(c, arena)
        /\ arena.ok => arena.drawn = {"Arena"} /\ arena.renderer.bound
    <3>1. c.renderObjects = {"Arena"} /\ c.renderObjects \in SUBSET (Players \cup {"Arena"})
      BY DEF Ready
    <3>2. /\ FrameStep(c, arena)
          /\ arena.ok => arena.drawn = c.drawn \cup c.renderObjects /\ arena.renderer.bound
      <4> HIDE DEF arena
      <4> QED
        BY <3>1, ObjectsDrawn DEF arena
    <3> HIDE DEF arena
    <3> QED
      BY <3>1, <3>2
  <2> HIDE DEF arena
  <2>3. /\ FrameStep(c, players)
        /\ players.ok => players.drawn = {"Arena"} \cup c.game.entries
    <3>1. ASSUME arena.ok
          PROVE  /\ FrameStep(arena, players)
                 /\ players.ok => players.drawn = {"Arena"} \cup c.game.entries
      <4>1. arena \in Clients /\ Ready(arena) /\ arena.game = c.game
        BY <2>2, <3>1 DEF FrameStep
      <4>2. arena.game.entries \in SUBSET (Players \cup {"Arena"})
        BY <4>1 DEF Clients, Games
      <4>3. players = DrawRenderObjects(arena, arena.game.entries, failing)
        BY <3>1
      <4> HIDE DEF players
      <4> QED
        BY <2>2, <3>1, <4>1, <4>2, <4>3, ObjectsDrawn
    <3>2. ~arena.ok => players = arena
      OBVIOUS
    <3> HIDE DEF players
    <3> QED
      BY <2>2, <3>1, <3>2, FrameSteps
  <2> HIDE DEF players
  <2>4. CASE ~players.ok
    BY <2>1, <2>3, <2>4
  <2>5. CASE players.ok
    <3>1. players \in Clients /\ Ready(players) /\ players.game = c.game
      BY <2>3, <2>5 DEF FrameStep
    <3>2. d = DrawHud(players, failing)
      BY <2>1, <2>5
    <3>3. /\ FrameStep(players, d)
          /\ d.ok => \/ c.game.gamePlayState = None /\ d.drawn = players.drawn
                     \/ /\ c.game.gamePlayState # None
                        /\ d.drawn \in {players.drawn \cup {c.game.gamePlayState},
                                        players.drawn \cup {"Lost"}}
      BY <3>1, <3>2, HudDrawn
    <3>4. FrameStep(c, d)
      BY <2>3, <2>5, <3>3, FrameSteps
    <3>5. /\ c.game.entries \subseteq Players
          /\ c.game.gamePlayState \in {None, "Waiting", "Playing", "Finished"}
      BY DEF Clients, Games
    <3>6. ASSUME d.ok
          PROVE  Complete(c.game, d.drawn \cup {"NetworkWindow"})
      <4>1. players.drawn = {"Arena"} \cup c.game.entries
        BY <2>3, <2>5
      <4>2. CASE c.game.gamePlayState = None
        BY <1>2, <3>3, <3>6, <4>1, <4>2 DEF Complete, Due
      <4>3. CASE c.game.gamePlayState # None
        <5>1. Due(c.game) = {"NetworkWindow", "Arena"} \cup c.game.entries
                              \cup {c.game.gamePlayState}
          BY <1>2, <4>3 DEF Due
        <5>2. CASE d.drawn = players.drawn \cup {c.game.gamePlayState}
          BY <4>1, <5>1, <5>2 DEF Complete
        <5>3. CASE d.drawn = players.drawn \cup {"Lost"}
          <6>1. /\ c.game.gamePlayState \notin c.game.entries
                /\ c.game.gamePlayState \notin {"NetworkWindow", "Arena"}
            BY <3>5, <4>3 DEF Players
          <6> QED
            BY <4>1, <5>1, <5>3, <6>1 DEF Complete
        <5> QED
          BY <3>3, <3>6, <4>3, <5>2, <5>3
      <4> QED
        BY <4>2, <4>3
    <3> QED
      BY <3>4, <3>6
  <2> QED
    BY <2>4, <2>5
<1> QED
  BY <1>1, <1>2

\* A frame shows all that belongs on it and leaves the application ready for
\* the next, or requests the exit.
LEMMA FrameEffect ==
  ASSUME NEW c \in Clients, Ready(c), NEW failing, NEW d, d = Render(c, failing)
  PROVE  /\ d \in Clients
         /\ d.ok => Ready(d) /\ d.game = c.game /\ Complete(c.game, d.shown)
         /\ ~d.ok => Exiting(d)
<1> DEFINE begun == BeginFrame(c)
           world == IF begun.ok THEN DrawWorld(begun, failing) ELSE begun
           ui == IF world.ok THEN DrawNetworkUi(world) ELSE world
           ended == IF ui.ok THEN EndFrame(ui, failing) ELSE ui
<1>1. d = IF ended.ok THEN ended ELSE [ended EXCEPT !.exitCode = 1, !.running = FALSE]
  <2>1. world = Then(begun, LAMBDA e : DrawWorld(e, failing))
    BY DEF Then
  <2>2. ui = Then(world, DrawNetworkUi)
    BY DEF Then
  <2>3. ended = Then(ui, LAMBDA e : EndFrame(e, failing))
    BY DEF Then
  <2> HIDE DEF world, ui, ended
  <2>4. d = OrElse(ended, RequestExit)
    BY <2>1, <2>2, <2>3 DEF Render
  <2> QED
    BY <2>4 DEF OrElse, RequestExit
<1>2. FrameStep(c, begun) /\ begun.ok /\ begun.drawn = {} /\ begun.renderer.bound
  <2> HIDE DEF begun
  <2> QED
    BY FrameBegun DEF begun
<1> HIDE DEF begun
<1>3. begun \in Clients /\ Ready(begun) /\ begun.game = c.game
  BY <1>2 DEF FrameStep
<1>4. /\ FrameStep(c, world)
      /\ world.ok => Complete(c.game, world.drawn \cup {"NetworkWindow"})
  <2>1. world = DrawWorld(begun, failing)
    BY <1>2
  <2> HIDE DEF world
  <2>2. /\ FrameStep(begun, world)
        /\ world.ok => Complete(c.game, world.drawn \cup {"NetworkWindow"})
    BY <1>2, <1>3, <2>1, WorldDrawn
  <2> QED
    BY <1>2, <2>2, FrameSteps
<1> HIDE DEF world
<1>5. /\ FrameStep(c, ui)
      /\ ui.ok => Complete(c.game, ui.drawn)
  <2>1. CASE ~world.ok
    BY <1>4, <2>1
  <2>2. CASE world.ok
    <3>1. ui = DrawNetworkUi(world) /\ world \in Clients /\ Ready(world)
      BY <1>4, <2>2 DEF FrameStep
    <3> HIDE DEF ui
    <3>2. FrameStep(world, ui) /\ ui.drawn = world.drawn \cup {"NetworkWindow"}
      BY <3>1, UiDrawn
    <3> QED
      BY <1>4, <2>2, <3>2, FrameSteps
  <2> QED
    BY <2>1, <2>2
<1> HIDE DEF ui
<1>6. /\ FrameStep(c, ended)
      /\ ended.ok => Complete(c.game, ended.shown)
  <2>1. CASE ~ui.ok
    BY <1>5, <2>1
  <2>2. CASE ui.ok
    <3>1. ended = EndFrame(ui, failing) /\ ui \in Clients /\ Ready(ui)
      BY <1>5, <2>2 DEF FrameStep
    <3> HIDE DEF ended
    <3>2. FrameStep(ui, ended) /\ (ended.ok => ended.shown = ui.drawn)
      BY <3>1, FrameEnded
    <3> QED
      BY <1>5, <2>2, <3>2, FrameSteps
  <2> QED
    BY <2>1, <2>2
<1> HIDE DEF ended
<1>7. CASE ended.ok
  BY <1>1, <1>6, <1>7 DEF FrameStep
<1>8. CASE ~ended.ok
  <2>1. d = [ended EXCEPT !.exitCode = 1, !.running = FALSE]
    BY <1>1, <1>8
  <2>2. /\ d \in Clients /\ d.exitCode = 1 /\ ~d.running /\ d.ok = ended.ok
        /\ d.faulted = ended.faulted
    BY <1>6, <2>1 DEF FrameStep, Clients
  <2> QED
    BY <1>6, <1>8, <2>2 DEF FrameStep, Exiting
<1> QED
  BY <1>7, <1>8

-----------------------------------------------------------------------------
(* The end.                                                                *)

\* The program has given everything back, and its exit code says how it went.
Ended(c) ==
    /\ c \in Clients
    /\ c.exitCode = IF c.faulted THEN 1 ELSE 0
    /\ ~c.window.created
    /\ c.renderer = NoRenderer /\ c.hud = NoHud /\ c.ui = NoUi
    /\ c.repository = {} /\ c.renderObjects = {}

\* Shutdown gives everything back and keeps the exit code.
LEMMA ShutdownEffect ==
  ASSUME NEW c \in Clients, Ready(c) \/ Exiting(c), NEW d, d = Shutdown(c)
  PROVE  Ended(d)
<1> DEFINE window == [c.window EXCEPT !.resizeCallback = FALSE]
           closed == [window EXCEPT !.created = FALSE, !.size = Empty, !.quit = TRUE]
           bare == [c EXCEPT !.running = FALSE, !.window = window, !.renderObjects = {},
                             !.repository = {}, !.ui = NoUi, !.hud = NoHud,
                             !.renderer = NoRenderer]
           last == IF window.created THEN closed ELSE window
<1>1. d = [bare EXCEPT !.window = last, !.game = NoGame, !.ok = TRUE]
  <2>1. ShutdownRenderer(ShutdownHud(ShutdownUi(
            [c EXCEPT !.running = FALSE, !.window.resizeCallback = FALSE,
                      !.renderObjects = {}, !.repository = {}]))) = bare
    BY DEF ShutdownRenderer, ShutdownHud, ShutdownUi, Clients
  <2>2. bare.window = window
    BY DEF Clients
  <2>3. d = [DestroyWindow(bare) EXCEPT !.game = NoGame, !.ok = TRUE]
    <3> HIDE DEF bare
    <3> QED
      BY <2>1 DEF Shutdown
  <2>4. DestroyWindow(bare) = [bare EXCEPT !.window = last]
    <3>1. CASE window.created
      <4>1. DestroyWindow(bare) = [bare EXCEPT !.window.created = FALSE, !.window.size = Empty,
                                               !.window.quit = TRUE]
        BY <2>2, <3>1 DEF DestroyWindow
      <4>2. [bare EXCEPT !.window.created = FALSE, !.window.size = Empty, !.window.quit = TRUE]
              = [bare EXCEPT !.window = closed]
        BY <2>2 DEF Clients
      <4> QED
        BY <3>1, <4>1, <4>2
    <3>2. CASE ~window.created
      <4>1. DestroyWindow(bare) = bare
        BY <2>2, <3>2 DEF DestroyWindow
      <4>2. [bare EXCEPT !.window = window] = bare
        BY DEF Clients
      <4> QED
        BY <3>2, <4>1, <4>2
    <3> QED
      BY <3>1, <3>2
  <2> HIDE DEF bare, last
  <2> QED
    BY <2>3, <2>4
<1>2. /\ last \in Windows /\ ~last.created
      /\ NoRenderer \in Renderers /\ NoHud \in Huds /\ NoUi \in Uis /\ NoGame \in Games
  <2>1. window \in Windows /\ closed \in Windows /\ ~closed.created
    BY DEF Clients, Windows
  <2>2. NoRenderer \in Renderers /\ NoHud \in Huds /\ NoUi \in Uis
    BY DEF NoRenderer, Renderers, NoHud, Huds, NoUi, Uis, Views
  <2>3. NoGame \in Games
    BY DEF NoGame, Games
  <2> HIDE DEF window, closed
  <2> QED
    BY <2>1, <2>2, <2>3
<1> HIDE DEF last
<1>3. d = [c EXCEPT !.running = FALSE, !.window = last, !.renderObjects = {},
                    !.repository = {}, !.ui = NoUi, !.hud = NoHud,
                    !.renderer = NoRenderer, !.game = NoGame, !.ok = TRUE]
  BY <1>1
<1>4. d \in Clients
  BY <1>2, <1>3 DEF Clients
<1>5. /\ d.window = last /\ d.renderObjects = {} /\ d.repository = {} /\ d.ui = NoUi
      /\ d.hud = NoHud /\ d.renderer = NoRenderer
      /\ d.exitCode = c.exitCode /\ d.faulted = c.faulted
  BY <1>3 DEF Clients
<1>6. c.exitCode = IF c.faulted THEN 1 ELSE 0
  BY DEF Ready, Exiting
<1> QED
  BY <1>2, <1>4, <1>5, <1>6 DEF Ended

-----------------------------------------------------------------------------
(* The invariant.                                                          *)

\* Where Run is in the loop, the client is in the state the loop needs.
ApplicationInv ==
    /\ stage \in {"start", "messages", "network", "ended"}
    /\ stage = "start" => client = NewClient
    /\ stage = "messages" =>
          /\ Loop(client)
          /\ client.shown # {} => Complete(client.game, client.shown)
    /\ stage = "network" => client \in Clients /\ Ready(client)
    /\ stage = "ended" => Ended(client)

\* A size leaves the application in its loop, with the picture it showed.
LEMMA SizeEffect ==
  ASSUME NEW c, Loop(c), NEW size \in Sizes \cup {Empty}, NEW failing,
         NEW d, d = SizeChanged(c, size, failing)
  PROVE  Loop(d) /\ d.game = c.game /\ d.shown = c.shown
<1> DEFINE w == [c.window EXCEPT !.size = size]
           sized == [c EXCEPT !.window.size = size]
<1>1. c \in Clients
  BY DEF Loop
<1>2. w \in Windows
  BY <1>1, WindowUpdate DEF Clients
<1>3. sized = [c EXCEPT !.window = w]
  BY <1>1 DEF Clients
<1>4. d = IF size = Empty \/ ~c.window.resizeCallback THEN sized
          ELSE HandleWindowResized(sized, size, failing)
  BY DEF SizeChanged
<1> HIDE DEF w, sized
<1>5. sized \in Clients
  BY <1>1, <1>2, <1>3 DEF Clients
<1>6. /\ sized.renderer = c.renderer /\ sized.running = c.running
      /\ sized.exitCode = c.exitCode /\ sized.ok = c.ok /\ sized.faulted = c.faulted
      /\ sized.told = c.told /\ sized.hud = c.hud /\ sized.ui = c.ui
      /\ sized.repository = c.repository /\ sized.renderObjects = c.renderObjects
      /\ sized.game = c.game /\ sized.shown = c.shown
  BY <1>1, <1>3 DEF Clients
<1>7. Ready(c) => Ready(sized)
  BY <1>6 DEF Ready
<1>8. Exiting(c) => Exiting(sized)
  BY <1>6 DEF Exiting
<1>9. Loop(sized)
  BY <1>5, <1>7, <1>8 DEF Loop
<1>10. CASE size = Empty \/ ~c.window.resizeCallback
  BY <1>4, <1>6, <1>9, <1>10
<1>11. CASE ~(size = Empty \/ ~c.window.resizeCallback)
  <2>1. d = HandleWindowResized(sized, size, failing) /\ size \in Sizes
    BY <1>4, <1>11
  <2>2. CASE Ready(sized)
    <3>1. Loop(d) /\ d.game = sized.game /\ d.shown = sized.shown
      BY <1>5, <2>1, <2>2, ResizedEffect
    <3> QED
      BY <1>6, <3>1
  <2>3. CASE ~Ready(sized)
    <3>1. ~sized.running
      BY <1>9, <2>3 DEF Loop, Exiting
    <3>2. d = sized
      BY <2>1, <3>1 DEF HandleWindowResized
    <3> QED
      BY <1>6, <1>9, <3>2
  <2> QED
    BY <2>2, <2>3
<1> QED
  BY <1>10, <1>11

\* The program starts in the invariant.
LEMMA InitEstablishes == Init => ApplicationInv
BY DEF Init, ApplicationInv

\* Every step of the program keeps it.
LEMMA NextPreserves == ApplicationInv /\ [Next]_vars => ApplicationInv'
<1> SUFFICES ASSUME ApplicationInv, [Next]_vars
             PROVE  ApplicationInv'
  OBVIOUS
<1>1. ASSUME NEW size \in Sizes, NEW failing, Start(size, failing)
      PROVE  ApplicationInv'
  <2> DEFINE started == StartUp(NewClient, size, failing)
  <2>1. stage = "start" /\ client = NewClient
    BY <1>1 DEF Start, ApplicationInv
  <2>2. IF started.ok THEN stage' = "messages" /\ client' = started
                      ELSE stage' = "ended" /\ client' = Shutdown(started)
    BY <1>1, <2>1 DEF Start
  <2>3. /\ started \in Clients /\ started.shown = {}
        /\ started.ok => Ready(started)
        /\ ~started.ok => Exiting(started)
    BY StartEffect
  <2> HIDE DEF started
  <2>4. CASE started.ok
    BY <2>2, <2>3, <2>4 DEF ApplicationInv, Loop
  <2>5. CASE ~started.ok
    <3>1. Ended(client')
      BY <2>2, <2>3, <2>5, ShutdownEffect
    <3> QED
      BY <2>2, <2>5, <3>1 DEF ApplicationInv
  <2> QED
    BY <2>4, <2>5
<1>2. ASSUME NEW size \in Sizes \cup {Empty}, NEW failing, WindowResized(size, failing)
      PROVE  ApplicationInv'
  <2>1. stage = "messages" /\ stage' = "messages"
        /\ client' = SizeChanged(client, size, failing)
    BY <1>2 DEF WindowResized
  <2>2. Loop(client') /\ client'.game = client.game /\ client'.shown = client.shown
    BY <2>1, SizeEffect DEF ApplicationInv
  <2> QED
    BY <2>1, <2>2 DEF ApplicationInv
<1>3. ASSUME WindowClosed
      PROVE  ApplicationInv'
  <2> DEFINE w == [client.window EXCEPT !.created = FALSE, !.size = Empty, !.quit = TRUE]
  <2>1. stage = "messages" /\ stage' = "messages" /\ client' = DestroyWindow(client)
        /\ client.window.created
    BY <1>3 DEF WindowClosed
  <2>2. client \in Clients /\ Loop(client)
    BY <2>1 DEF ApplicationInv, Loop
  <2>3. w \in Windows
    BY <2>2 DEF Clients, Windows
  <2>4. client' = [client EXCEPT !.window = w]
    <3>1. client' = [client EXCEPT !.window.created = FALSE, !.window.size = Empty,
                                   !.window.quit = TRUE]
      BY <2>1 DEF DestroyWindow
    <3> QED
      BY <2>2, <3>1 DEF Clients
  <2> HIDE DEF w
  <2>5. client' \in Clients
    BY <2>2, <2>3, <2>4 DEF Clients
  <2>6. /\ client'.renderer = client.renderer /\ client'.running = client.running
        /\ client'.exitCode = client.exitCode /\ client'.ok = client.ok
        /\ client'.faulted = client.faulted /\ client'.told = client.told
        /\ client'.hud = client.hud /\ client'.ui = client.ui
        /\ client'.repository = client.repository
        /\ client'.renderObjects = client.renderObjects
        /\ client'.game = client.game /\ client'.shown = client.shown
    BY <2>2, <2>4 DEF Clients
  <2>7. Ready(client) => Ready(client')
    BY <2>6 DEF Ready
  <2>8. Exiting(client) => Exiting(client')
    BY <2>6 DEF Exiting
  <2> QED
    BY <2>1, <2>2, <2>5, <2>6, <2>7, <2>8 DEF ApplicationInv, Loop
<1>4. ASSUME MessagesProcessed
      PROVE  ApplicationInv'
  <2>1. stage = "messages" /\ Loop(client)
    BY <1>4 DEF MessagesProcessed, ApplicationInv
  <2>2. CASE client.running /\ ~client.window.quit
    <3>1. stage' = "network" /\ client' = client
      BY <1>4, <2>2 DEF MessagesProcessed
    <3>2. client \in Clients /\ Ready(client)
      BY <2>1, <2>2 DEF Loop, Exiting
    <3> QED
      BY <3>1, <3>2 DEF ApplicationInv
  <2>3. CASE ~(client.running /\ ~client.window.quit)
    <3>1. stage' = "ended" /\ client' = Shutdown(client)
      BY <1>4, <2>3 DEF MessagesProcessed
    <3>2. Ended(client')
      BY <2>1, <3>1, ShutdownEffect DEF Loop
    <3> QED
      BY <3>1, <3>2 DEF ApplicationInv
  <2> QED
    BY <2>2, <2>3
<1>5. ASSUME NEW g \in Games, g.gamePlayState # None => g.connection = "identified",
             stage = "network", stage' = stage, client' = [client EXCEPT !.game = g]
      PROVE  ApplicationInv'
  <2>1. client \in Clients /\ Ready(client)
    BY <1>5 DEF ApplicationInv
  <2>2. client' \in Clients
    BY <1>5, <2>1 DEF Clients
  <2>3. /\ client'.renderer = client.renderer /\ client'.running = client.running
        /\ client'.exitCode = client.exitCode /\ client'.ok = client.ok
        /\ client'.faulted = client.faulted /\ client'.told = client.told
        /\ client'.hud = client.hud /\ client'.ui = client.ui
        /\ client'.repository = client.repository
        /\ client'.renderObjects = client.renderObjects /\ client'.game = g
    BY <1>5, <2>1 DEF Clients
  <2>4. Ready(client')
    BY <1>5, <2>1, <2>3 DEF Ready
  <2> QED
    BY <1>5, <2>2, <2>4 DEF ApplicationInv
<1>6. ASSUME IdentityReceived
      PROVE  ApplicationInv'
  <2> DEFINE g == [client.game EXCEPT !.connection = "identified"]
  <2>1. client \in Clients /\ stage = "network" /\ stage' = stage
    BY <1>6 DEF IdentityReceived, ApplicationInv
  <2>2. g \in Games /\ g.connection = "identified"
    BY <2>1 DEF Clients, Games
  <2>3. client' = [client EXCEPT !.game = g]
    BY <1>6, <2>1 DEF IdentityReceived, Clients
  <2> HIDE DEF g
  <2> QED
    BY <1>5, <2>1, <2>2, <2>3
<1>7. ASSUME NEW gamePlayState \in {"Waiting", "Playing", "Finished"},
             SnapshotReceived(gamePlayState)
      PROVE  ApplicationInv'
  <2> DEFINE players == IF gamePlayState = "Waiting" THEN {"Flame"} ELSE Players
             g == [client.game EXCEPT !.gamePlayState = gamePlayState, !.entries = players]
  <2>1. client \in Clients /\ stage = "network" /\ stage' = stage
        /\ client.game.connection = "identified"
    BY <1>7 DEF SnapshotReceived, ApplicationInv
  <2>2. players \in SUBSET Players
    BY DEF Players
  <2>3. client' = [client EXCEPT !.game = g]
    BY <1>7, <2>1 DEF SnapshotReceived, Clients
  <2> HIDE DEF players
  <2>4. g \in Games /\ g.connection = "identified"
    BY <2>1, <2>2 DEF Clients, Games
  <2> HIDE DEF g
  <2> QED
    BY <1>5, <2>1, <2>3, <2>4
<1>8. ASSUME ConnectionEnded
      PROVE  ApplicationInv'
  <2> DEFINE g == [client.game EXCEPT !.connection = "over", !.gamePlayState = None]
  <2>1. client \in Clients /\ stage = "network" /\ stage' = stage
    BY <1>8 DEF ConnectionEnded, ApplicationInv
  <2>2. g \in Games /\ g.gamePlayState = None
    BY <2>1 DEF Clients, Games
  <2>3. client' = [client EXCEPT !.game = g]
    BY <1>8, <2>1 DEF ConnectionEnded, Clients
  <2> HIDE DEF g
  <2> QED
    BY <1>5, <2>1, <2>2, <2>3
<1>9. ASSUME NEW failing, Frame(failing)
      PROVE  ApplicationInv'
  <2> DEFINE rendered == Render(client, failing)
  <2>1. client \in Clients /\ Ready(client)
    BY <1>9 DEF Frame, ApplicationInv
  <2>2. IF rendered.ok THEN stage' = "messages" /\ client' = rendered
                       ELSE stage' = "ended" /\ client' = Shutdown(rendered)
    BY <1>9 DEF Frame
  <2>3. /\ rendered \in Clients
        /\ rendered.ok => /\ Ready(rendered) /\ rendered.game = client.game
                          /\ Complete(client.game, rendered.shown)
        /\ ~rendered.ok => Exiting(rendered)
    BY <2>1, FrameEffect
  <2> HIDE DEF rendered
  <2>4. CASE rendered.ok
    BY <2>2, <2>3, <2>4 DEF ApplicationInv, Loop
  <2>5. CASE ~rendered.ok
    <3>1. Ended(client')
      BY <2>2, <2>3, <2>5, ShutdownEffect
    <3> QED
      BY <2>2, <2>5, <3>1 DEF ApplicationInv
  <2> QED
    BY <2>4, <2>5
<1>10. ASSUME UNCHANGED vars
       PROVE  ApplicationInv'
  BY <1>10 DEF vars, ApplicationInv
<1> QED
  BY <1>1, <1>2, <1>3, <1>4, <1>6, <1>7, <1>8, <1>9, <1>10 DEF Next

-----------------------------------------------------------------------------
(* What follows from it.                                                  *)

\* At each place of its loop the program is in the state the loop needs: ready
\* with all its views of one size, or exiting (Run).
THEOREM ApplicationInvariant == Spec => []ApplicationInv
BY InitEstablishes, NextPreserves, PTL DEF Spec

\* Every member of the application has its type.
THEOREM TypeCorrect == Spec => []TypeOK
<1>1. ApplicationInv => TypeOK
  BY NewClientTyped DEF ApplicationInv, TypeOK, Loop, Ended
<1> QED
  BY <1>1, ApplicationInvariant, PTL

\* Whatever sizes the window is given and whatever calls fail, a frame is drawn
\* on buffers that all have the size last told, and a presented picture has all
\* that belongs on it but a HUD whose target was lost (HandleWindowResized,
\* Resize, BindRenderTargets, Render).
THEOREM PicturesAreWhole == Spec => []PictureWhole
<1>1. ApplicationInv => PictureWhole
  <2> SUFFICES ASSUME ApplicationInv
               PROVE  PictureWhole
    OBVIOUS
  <2>1. stage = "network" =>
          {client.renderer.backBuffer, client.renderer.renderTargetView,
           client.renderer.depthStencilView, client.hud.targetBitmap} = {client.told}
    BY DEF ApplicationInv, Ready, Whole
  <2>2. stage = "messages" /\ client.shown # {} =>
          \/ client.shown = Expected
          \/ client.shown = (Expected \ {client.game.gamePlayState}) \cup {"Lost"}
    <3>1. Expected = Due(client.game)
      BY DEF Expected, Due
    <3> QED
      BY <3>1 DEF ApplicationInv, Complete
  <2> QED
    BY <2>1, <2>2 DEF PictureWhole
<1> QED
  BY <1>1, ApplicationInvariant, PTL

\* The exit code is that of a failure if and only if a call of the platform
\* failed, and everything is given back, whichever call it was (Run,
\* RequestExit, Shutdown).
THEOREM AlwaysEndsCleanly == Spec => []EndsCleanly
<1>1. ApplicationInv => EndsCleanly
  BY DEF ApplicationInv, EndsCleanly, Ready, Ended
<1> QED
  BY <1>1, ApplicationInvariant, PTL

=============================================================================
