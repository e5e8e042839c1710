------------------------- MODULE ClientApplication -------------------------
(***************************************************************************)
(* The client program from start to end: the window, the Direct3D          *)
(* renderer, the Direct2D HUD and the network UI that share its back       *)
(* buffer, the GPU resources, and the loop that handles window messages,   *)
(* then network events, then draws one frame.  Any call of the platform    *)
(* can fail; what a failing platform call leaves behind is what the code   *)
(* around it cleans up, or not.                                            *)
(***************************************************************************)
EXTENDS Naturals

CONSTANTS
    Sizes,          \* the sizes the client area of the window can have
    InitialSize     \* the one the window is created for

\* A client area without pixels, and a view or buffer that does not exist.
Empty == "empty"
None == "none"

ASSUME ClientApplicationAssumption ==
    /\ InitialSize \in Sizes
    /\ Empty \notin Sizes /\ None \notin Sizes

Players == {"Flame", "Frost"}
Resources == {"ArenaMesh", "ArenaTextures", "PlayerMesh", "FlameTextures", "FrostTextures"}

\* The repository entries a render object refers to by handle.
Uses(object) ==
    CASE object = "Arena" -> {"ArenaMesh", "ArenaTextures"}
      [] object = "Flame" -> {"PlayerMesh", "FlameTextures"}
      [] object = "Frost" -> {"PlayerMesh", "FrostTextures"}

\* The calls that can fail, all but the request to connect of the platform,
\* and a target that can be lost.
StartCalls ==
    Resources \cup
    {"Window", "ShaderPaths", "SwapChain", "ImagingFactory", "TargetView",
     "DepthStencil", "Pipeline", "HudDevice", "HudBitmap", "HudBrushes", "UiWindow", "UiDevice",
     "Connection"}
ResizeCalls == {"ResizeBuffers", "TargetView", "DepthStencil", "HudBitmap"}
FrameCalls == {"DrawMesh", "EndDraw", "RecreateTarget", "HudBitmap", "Present"}

VARIABLES
    stage,      \* where Run is: in which part of the loop, or outside it
    client      \* the ClientApplication and all it owns

vars == <<stage, client>>

NoRenderer ==
    [initialized |-> FALSE, device |-> FALSE, backBuffer |-> None,
     renderTargetView |-> None, depthStencilView |-> None, bound |-> FALSE]
NoHud ==
    [initialized |-> FALSE, device |-> FALSE, targetBitmap |-> None, frameActive |-> FALSE]
NoUi ==
    [initialized |-> FALSE, context |-> FALSE, win32Backend |-> FALSE,
     directX11Backend |-> FALSE, frameActive |-> FALSE]
NoWindow == [created |-> FALSE, size |-> Empty, quit |-> FALSE, resizeCallback |-> FALSE]
NoGame == [connection |-> "connecting", gamePlayState |-> None, entries |-> {}]

\* ok is the result of the last call.  Histories: faulted, whether a
\* call failed; told, the size the application was last told; shown, what the
\* last presented frame consists of.
NewClient ==
    [running |-> FALSE, exitCode |-> 1, window |-> NoWindow, renderer |-> NoRenderer,
     hud |-> NoHud, ui |-> NoUi, repository |-> {}, renderObjects |-> {}, game |-> NoGame,
     drawn |-> {}, ok |-> TRUE, faulted |-> FALSE, told |-> InitialSize, shown |-> {}]

-----------------------------------------------------------------------------
(* How calls follow each other.                                            *)

\* A function that fails returns before its next call.
Then(c, Step(_)) == IF c.ok THEN Step(c) ELSE c
OrElse(c, Undo(_)) == IF c.ok THEN c ELSE Undo(c)

Require(c, condition) == IF condition THEN c ELSE [c EXCEPT !.ok = FALSE]

Call(c, name, failing) ==
    IF name \in failing THEN [c EXCEPT !.ok = FALSE, !.faulted = TRUE] ELSE c

RequestExit(c) == [c EXCEPT !.exitCode = 1, !.running = FALSE]

-----------------------------------------------------------------------------
(* The renderer.                                                           *)

ShutdownRenderer(c) == [c EXCEPT !.renderer = NoRenderer]

CreateRenderTargetView(c, failing) ==
    Then(Call(Require(c, c.renderer.device), "TargetView", failing),
         LAMBDA d : [d EXCEPT !.renderer.renderTargetView = d.renderer.backBuffer])

CreateDepthStencilBufferAndView(c, size, failing) ==
    Then(Call(Require(c, c.renderer.device /\ size # Empty), "DepthStencil", failing),
         LAMBDA d : [d EXCEPT !.renderer.depthStencilView = size])

CreateDeviceAndSwapChain(c, failing) ==
    Then(Call(c, "SwapChain", failing),
         LAMBDA d : [d EXCEPT !.renderer.device = TRUE, !.renderer.backBuffer = InitialSize])

InitializeRenderer(c, failing) ==
    LET created == Then(Require(c, ~c.renderer.initialized /\ c.window.created),
                        LAMBDA d : CreateDeviceAndSwapChain(d, failing))
        factory == Then(created, LAMBDA d : Call(d, "ImagingFactory", failing))
        target  == Then(factory, LAMBDA d : CreateRenderTargetView(d, failing))
        depth   == Then(target, LAMBDA d :
                            CreateDepthStencilBufferAndView(d, InitialSize, failing))
        ready   == Then(depth, LAMBDA d : Call(d, "Pipeline", failing))
    IN  OrElse(Then(ready, LAMBDA d : [d EXCEPT !.renderer.initialized = TRUE]),
               ShutdownRenderer)

\* The platform does not resize buffers that something still refers to.
ResizeBuffers(c, size, failing) ==
    Then(Call(Require(c, /\ c.renderer.renderTargetView = None
                         /\ c.hud.targetBitmap = None
                         /\ ~c.renderer.bound),
              "ResizeBuffers", failing),
         LAMBDA d : [d EXCEPT !.renderer.backBuffer = size])

\* A failure after the views were given up leaves the renderer unusable.
Resize(c, size, failing) ==
    LET released == [c EXCEPT !.renderer.bound = FALSE,
                              !.renderer.renderTargetView = None,
                              !.renderer.depthStencilView = None]
        resized  == ResizeBuffers(released, size, failing)
        target   == Then(resized, LAMBDA d : CreateRenderTargetView(d, failing))
        depth    == Then(target, LAMBDA d :
                             CreateDepthStencilBufferAndView(d, size, failing))
    IN  IF ~c.renderer.initialized THEN [c EXCEPT !.ok = FALSE]
        ELSE OrElse(depth, LAMBDA d : [d EXCEPT !.renderer.initialized = FALSE])

BindRenderTargets(c) == [c EXCEPT !.renderer.bound = TRUE]

BeginFrame(c) ==
    Then(Require(c, /\ c.renderer.initialized
                    /\ c.renderer.renderTargetView # None
                    /\ c.renderer.depthStencilView # None),
         LAMBDA d : [BindRenderTargets(d) EXCEPT !.drawn = {}])

\* What is drawn without a bound target is not to be seen.
Draw(c, layers) == IF c.renderer.bound THEN [c EXCEPT !.drawn = @ \cup layers] ELSE c

EndFrame(c, failing) ==
    Then(Call(Require(c, c.renderer.initialized), "Present", failing),
         LAMBDA d : [d EXCEPT !.shown = d.drawn])

-----------------------------------------------------------------------------
(* The game HUD, drawn by Direct2D on the same back buffer.                *)

ReleaseBackBufferResources(c) ==
    [c EXCEPT !.hud.frameActive = FALSE, !.hud.targetBitmap = None]

CreateBackBufferResources(c, failing) ==
    Then(Call(Require(c, c.hud.device /\ c.hud.targetBitmap = None), "HudBitmap", failing),
         LAMBDA d : [d EXCEPT !.hud.targetBitmap = d.renderer.backBuffer])

ShutdownHud(c) == [c EXCEPT !.hud = NoHud]

InitializeHud(c, failing) ==
    LET device == Then(Call(Require(c, ~c.hud.initialized /\ c.renderer.device),
                            "HudDevice", failing),
                       LAMBDA d : [d EXCEPT !.hud.device = TRUE])
        bitmap == Then(device, LAMBDA d : CreateBackBufferResources(d, failing))
        ready  == Then(bitmap, LAMBDA d : Call(d, "HudBrushes", failing))
    IN  OrElse(Then(ready, LAMBDA d : [d EXCEPT !.hud.initialized = TRUE]), ShutdownHud)

BeginHudFrame(c) ==
    Then(Require(c, /\ c.hud.initialized /\ ~c.hud.frameActive
                    /\ c.hud.targetBitmap # None),
         LAMBDA d : [d EXCEPT !.hud.frameActive = TRUE])

\* Direct2D takes the pipeline over.  When it lost its target, what it drew is
\* lost too, and the target is made anew.
EndHudFrame(c, hud, failing) ==
    LET ended == [c EXCEPT !.hud.frameActive = FALSE, !.renderer.bound = FALSE]
    IN  IF "RecreateTarget" \in failing
        THEN CreateBackBufferResources(
                 [ReleaseBackBufferResources(ended) EXCEPT !.drawn = @ \cup {"Lost"}],
                 failing)
        ELSE Then(Call(ended, "EndDraw", failing),
                  LAMBDA d : [d EXCEPT !.drawn = @ \cup {hud}])

-----------------------------------------------------------------------------
(* The network UI.                                                         *)

ShutdownUi(c) == [c EXCEPT !.ui = NoUi]

InitializeUi(c, failing) ==
    LET context == Then(Require(c, /\ ~c.ui.initialized
                                   /\ c.window.created /\ c.renderer.device),
                        LAMBDA d : [d EXCEPT !.ui.context = TRUE])
        win32   == Then(Then(context, LAMBDA d : Call(d, "UiWindow", failing)),
                        LAMBDA d : [d EXCEPT !.ui.win32Backend = TRUE])
        ready   == Then(Then(win32, LAMBDA d : Call(d, "UiDevice", failing)),
                        LAMBDA d : [d EXCEPT !.ui.directX11Backend = TRUE,
                                             !.ui.initialized = TRUE])
    IN  OrElse(ready, ShutdownUi)

BeginUiFrame(c) ==
    Then(Require(c, c.ui.initialized /\ ~c.ui.frameActive),
         LAMBDA d : [d EXCEPT !.ui.frameActive = TRUE])

EndUiFrame(c) ==
    Then(Require(c, c.ui.initialized /\ c.ui.frameActive),
         LAMBDA d : Draw([d EXCEPT !.ui.frameActive = FALSE], {"NetworkWindow"}))

-----------------------------------------------------------------------------
(* The application.                                                        *)

CreateResource(c, resource, failing) ==
    Then(Call(Require(c, c.renderer.initialized), resource, failing),
         LAMBDA d : [d EXCEPT !.repository = @ \cup {resource}])

\* The files, the decoding and the GPU object of a resource fail as one call.
InitializeRenderResources(c, failing) ==
    LET arena  == Then(c, LAMBDA d : CreateResource(d, "ArenaMesh", failing))
        walls  == Then(arena, LAMBDA d : CreateResource(d, "ArenaTextures", failing))
        player == Then(walls, LAMBDA d : CreateResource(d, "PlayerMesh", failing))
        flame  == Then(player, LAMBDA d : CreateResource(d, "FlameTextures", failing))
        frost  == Then(flame, LAMBDA d : CreateResource(d, "FrostTextures", failing))
    IN  Then(frost, LAMBDA d : [d EXCEPT !.renderObjects = {"Arena"}])

\* DestroyWindow posts the quit message.
DestroyWindow(c) ==
    IF c.window.created
    THEN [c EXCEPT !.window.created = FALSE, !.window.size = Empty, !.window.quit = TRUE]
    ELSE c

Shutdown(c) ==
    LET stopped == [c EXCEPT !.running = FALSE, !.window.resizeCallback = FALSE,
                             !.renderObjects = {}, !.repository = {}]
    IN  [DestroyWindow(ShutdownRenderer(ShutdownHud(ShutdownUi(stopped))))
            EXCEPT !.game = NoGame, !.ok = TRUE]

\* Run up to the loop.  The window can have another size than it was created
\* for once it is shown; nobody is told before the callback is set.  A connection
\* that cannot even be asked for ends the application before its first turn.
StartUp(c, size, failing) ==
    LET window    == Then(Call(c, "Window", failing),
                          LAMBDA d : [d EXCEPT !.window.created = TRUE,
                                               !.window.size = InitialSize])
        shaders   == Then(window, LAMBDA d : Call(d, "ShaderPaths", failing))
        renderer  == Then(shaders, LAMBDA d : InitializeRenderer(d, failing))
        hud       == Then(renderer, LAMBDA d : InitializeHud(d, failing))
        ui        == Then(hud, LAMBDA d : InitializeUi(d, failing))
        resources == Then(ui, LAMBDA d : InitializeRenderResources(d, failing))
        running   == Then(resources, LAMBDA d : [d EXCEPT !.window.size = size,
                                                          !.window.resizeCallback = TRUE,
                                                          !.running = TRUE, !.exitCode = 0])
    IN  Then(running, LAMBDA d : OrElse(Call(d, "Connection", failing), RequestExit))

\* Mutant: the HUD keeps its bitmap of the back buffer during the resize.
HandleWindowResizedWithHud(c, size, failing) ==
    LET resized  == Resize([c EXCEPT !.told = size], size, failing)
        exiting  == [OrElse(resized, RequestExit) EXCEPT !.ok = TRUE]
        restored == CreateBackBufferResources(ReleaseBackBufferResources(exiting), failing)
    IN  IF ~c.running THEN c
        ELSE [OrElse(restored, RequestExit) EXCEPT !.ok = TRUE]

HandleWindowResized(c, size, failing) ==
    LET resized  == Resize(ReleaseBackBufferResources([c EXCEPT !.told = size]),
                           size, failing)
        exiting  == [OrElse(resized, RequestExit) EXCEPT !.ok = TRUE]
        restored == Then(Require(exiting, exiting.hud.initialized),
                         LAMBDA d : CreateBackBufferResources(d, failing))
    IN  IF ~c.running THEN c
        ELSE [OrElse(restored, RequestExit) EXCEPT !.ok = TRUE]

\* Mutant: the size of a minimised window is passed on.
SizeAlwaysTold(c, size, failing) ==
    LET sized == [c EXCEPT !.window.size = size]
    IN  IF ~c.window.resizeCallback THEN sized
        ELSE HandleWindowResized(sized, size, failing)

\* WM_SIZE; a client area without pixels, as of a minimised window, is ignored.
SizeChanged(c, size, failing) ==
    LET sized == [c EXCEPT !.window.size = size]
    IN  IF size = Empty \/ ~c.window.resizeCallback THEN sized
        ELSE HandleWindowResized(sized, size, failing)

\* Every handle of the objects resolves, and every mesh can be drawn.
DrawRenderObjects(c, objects, failing) ==
    IF objects = {} THEN c
    ELSE Then(Call(Require(c, /\ c.renderer.initialized
                              /\ UNION {Uses(object) : object \in objects} \subseteq
                                     c.repository),
                   "DrawMesh", failing),
              LAMBDA d : Draw(d, objects))

\* Which HUD is drawn follows the state of the game: Waiting, Playing, Finished.
DrawHud(c, failing) ==
    IF c.game.gamePlayState = None THEN c
    ELSE Then(BeginHudFrame(c), LAMBDA d : EndHudFrame(d, c.game.gamePlayState, failing))

DrawWorld(c, failing) ==
    IF c.game.connection # "identified" THEN c
    ELSE Then(Then(DrawRenderObjects(c, c.renderObjects, failing),
                   LAMBDA d : DrawRenderObjects(d, d.game.entries, failing)),
              LAMBDA d : DrawHud(d, failing))

\* Mutant: the targets are not bound again after the HUD.
DrawNetworkUiAfterHud(c) == Then(BeginUiFrame(c), EndUiFrame)

DrawNetworkUi(c) == Then(BeginUiFrame(c), LAMBDA d : EndUiFrame(BindRenderTargets(d)))

\* Every failure in it requests the exit.
Render(c, failing) ==
    LET world == Then(BeginFrame(c), LAMBDA d : DrawWorld(d, failing))
        ui    == Then(world, DrawNetworkUi)
    IN  OrElse(Then(ui, LAMBDA d : EndFrame(d, failing)), RequestExit)

-----------------------------------------------------------------------------

Init ==
    /\ stage = "start"
    /\ client = NewClient

Start(size, failing) ==
    /\ stage = "start"
    /\ LET started == StartUp(client, size, failing)
       IN  IF started.ok
           THEN stage' = "messages" /\ client' = started
           ELSE stage' = "ended" /\ client' = Shutdown(started)

WindowResized(size, failing) ==
    /\ stage = "messages" /\ client.window.created
    /\ size # client.window.size
    /\ client' = SizeChanged(client, size, failing)
    /\ UNCHANGED stage

WindowClosed ==
    /\ stage = "messages" /\ client.window.created
    /\ client' = DestroyWindow(client)
    /\ UNCHANGED stage

\* The message queue is empty, or holds the quit message.
MessagesProcessed ==
    /\ stage = "messages"
    /\ IF client.running /\ ~client.window.quit
       THEN stage' = "network" /\ UNCHANGED client
       ELSE stage' = "ended" /\ client' = Shutdown(client)

IdentityReceived ==
    /\ stage = "network" /\ client.game.connection = "connecting"
    /\ client' = [client EXCEPT !.game.connection = "identified"]
    /\ UNCHANGED stage

\* Both players are in a snapshot of a game, the own one in any snapshot.
SnapshotReceived(gamePlayState) ==
    /\ stage = "network" /\ client.game.connection = "identified"
    /\ client' = [client EXCEPT
          !.game.gamePlayState = gamePlayState,
          !.game.entries = IF gamePlayState = "Waiting" THEN {"Flame"} ELSE Players]
    /\ UNCHANGED stage

\* The render entries of the players stay as they were.
ConnectionEnded ==
    /\ stage = "network" /\ client.game.connection # "over"
    /\ client' = [client EXCEPT !.game.connection = "over", !.game.gamePlayState = None]
    /\ UNCHANGED stage

Frame(failing) ==
    /\ stage = "network"
    /\ LET rendered == Render(client, failing)
       IN  IF rendered.ok
           THEN stage' = "messages" /\ client' = rendered
           ELSE stage' = "ended" /\ client' = Shutdown(rendered)

\* The first failure ends the start, so at most one call fails.
Next ==
    \/ \E size \in Sizes, failing \in {{}} \cup {{call} : call \in StartCalls} :
          Start(size, failing)
    \/ \E size \in Sizes \cup {Empty}, failing \in SUBSET ResizeCalls :
          WindowResized(size, failing)
    \/ WindowClosed
    \/ MessagesProcessed
    \/ IdentityReceived
    \/ \E gamePlayState \in {"Waiting", "Playing", "Finished"} :
          SnapshotReceived(gamePlayState)
    \/ ConnectionEnded
    \/ \E failing \in SUBSET FrameCalls : Frame(failing)

Spec == Init /\ [][Next]_vars

-----------------------------------------------------------------------------
(* Properties.                                                             *)

Views == Sizes \cup {None}
Layers == Players \cup {"Arena", "Waiting", "Playing", "Finished", "Lost", "NetworkWindow"}

Windows ==
    [created : BOOLEAN, size : Sizes \cup {Empty}, quit : BOOLEAN, resizeCallback : BOOLEAN]
Renderers ==
    [initialized : BOOLEAN, device : BOOLEAN, backBuffer : Views, renderTargetView : Views,
     depthStencilView : Views, bound : BOOLEAN]
Huds ==
    [initialized : BOOLEAN, device : BOOLEAN, targetBitmap : Views, frameActive : BOOLEAN]
Uis ==
    [initialized : BOOLEAN, context : BOOLEAN, win32Backend : BOOLEAN,
     directX11Backend : BOOLEAN, frameActive : BOOLEAN]
Games ==
    [connection : {"connecting", "identified", "over"},
     gamePlayState : {None, "Waiting", "Playing", "Finished"}, entries : SUBSET Players]
Clients ==
    [running : BOOLEAN, exitCode : {0, 1}, window : Windows, renderer : Renderers,
     hud : Huds, ui : Uis, repository : SUBSET Resources, renderObjects : SUBSET {"Arena"},
     game : Games, drawn : SUBSET Layers, ok : BOOLEAN, faulted : BOOLEAN,
     told : Sizes, shown : SUBSET Layers]

\* Every member of the application has its type; a window that was told a size
\* was never told an empty one.
TypeOK ==
    /\ stage \in {"start", "messages", "network", "ended"}
    /\ client \in Clients

Expected ==
    LET game == client.game
    IN  IF game.connection # "identified" THEN {"NetworkWindow"}
        ELSE {"NetworkWindow", "Arena"} \cup game.entries \cup
             (IF game.gamePlayState = None THEN {} ELSE {game.gamePlayState})

\* A frame is drawn on buffers that all have the size the application was last
\* told, in whatever order the window was resized, minimised and restored, and
\* once it was presented everything that belongs on it is on it, except for a
\* HUD whose target was lost (HandleWindowResized, Resize, RestoreAfterResize,
\* EndFrame of the HUD, BindRenderTargets, Render).
PictureWhole ==
    /\ stage = "network" =>
          {client.renderer.backBuffer, client.renderer.renderTargetView,
           client.renderer.depthStencilView, client.hud.targetBitmap} = {client.told}
    /\ stage = "messages" /\ client.shown # {} =>
          \/ client.shown = Expected
          \/ client.shown = (Expected \ {client.game.gamePlayState}) \cup {"Lost"}

\* The program ends with an error if and only if something failed: no failure
\* of the platform is drawn over or forgotten, the order of its own calls makes
\* none, and whatever fails, at the start too, everything is given back (Run,
\* HandleWindowResized, Render, RequestExit, Shutdown).
EndsCleanly ==
    /\ stage = "network" => ~client.faulted
    /\ stage = "ended" =>
          /\ client.exitCode = IF client.faulted THEN 1 ELSE 0
          /\ ~client.window.created
          /\ client.renderer = NoRenderer /\ client.hud = NoHud /\ client.ui = NoUi
          /\ client.repository = {} /\ client.renderObjects = {}

=============================================================================
