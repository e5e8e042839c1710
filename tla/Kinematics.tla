----------------------------- MODULE Kinematics -----------------------------
(***************************************************************************)
(* The geometry of the arena: how a player moves during one tick and when  *)
(* two moving players first touch (the free functions and the constants at *)
(* the top of server/game/room.cpp).                                       *)
(*                                                                         *)
(* Time and space are an exact integer grid.  A vector has integer         *)
(* components; a direction of full strength has length AxisMax, so a       *)
(* velocity is a direction times a speed and one unit of length is one     *)
(* AxisMax-th of the distance walked in one unit of time at speed 1.  The  *)
(* rounding of IEEE floats is not modelled.  Square roots are never taken: *)
(* a contact time is kept as the surd base + (-b - sqrt(disc)) / twoA and  *)
(* compared with integers by squaring.                                     *)
(***************************************************************************)
EXTENDS Integers, FiniteSetsExt

CONSTANTS
    AxisMax,            \* MaxPlayerInputAxisRawValue: a full-strength input axis
    MoveSpeed,          \* PlayerMoveSpeed
    DashSpeed,          \* PlayerDashSpeed
    CollisionDistance,  \* twice PlayerCollisionRadius
    WallX, WallY        \* ArenaMaxX/Y less PlayerBoundaryMargin (the arena is centred)

ASSUME KinematicsAssumption ==
    /\ AxisMax \in Nat \ {0}
    /\ MoveSpeed \in Nat \ {0}
    /\ DashSpeed \in Nat \ {0}
    /\ CollisionDistance \in Nat \ {0}
    /\ WallX \in Nat \ {0}
    /\ WallY \in Nat \ {0}

-----------------------------------------------------------------------------
(* Vectors and the two-argument minimum and maximum.                       *)

Vector == [x : Int, y : Int]
Zero == [x |-> 0, y |-> 0]

Plus(u, v) == [x |-> u.x + v.x, y |-> u.y + v.y]
Minus(u, v) == [x |-> u.x - v.x, y |-> u.y - v.y]
Times(k, v) == [x |-> k * v.x, y |-> k * v.y]
Dot(u, v) == u.x * v.x + u.y * v.y

Least(m, n) == IF m <= n THEN m ELSE n
Greatest(m, n) == IF m >= n THEN m ELSE n

Bounded(n, bound) == Greatest(-bound, Least(n, bound))

\* std::clamp of a position to the walls.
Clamp(v) == [x |-> Bounded(v.x, WallX), y |-> Bounded(v.y, WallY)]

Arena == [x : -WallX .. WallX, y : -WallY .. WallY]

-----------------------------------------------------------------------------
(* A raw input inside the unit disc keeps its strength; one outside it is  *)
(* scaled to full strength, each component rounded towards zero to the     *)
(* grid.                                                                   *)

OnUnitCircle(component, raw) ==
    LET size == Max({k \in 0 .. AxisMax :
                        k * k * Dot(raw, raw) <= (AxisMax * component) * (AxisMax * component)})
    IN  IF component < 0 THEN -size ELSE size

\* Mutant: the raw input is taken as it came.
RawInput(raw) == raw

NormalizePlayerInput(raw) ==
    IF Dot(raw, raw) > AxisMax * AxisMax
    THEN [x |-> OnUnitCircle(raw.x, raw), y |-> OnUnitCircle(raw.y, raw)]
    ELSE raw

-----------------------------------------------------------------------------
(* Motion.  A body p has the fields pos, dir, dashDir and dash (the time   *)
(* its dash still lasts); it dashes first and walks for what is left.      *)

\* Mutant: a dash that has just ended, or never began, still sets the velocity.
VelocityAfterDash(p, t) ==
    IF p.dash >= t THEN Times(DashSpeed, p.dashDir) ELSE Times(MoveSpeed, p.dir)

Velocity(p, t) ==
    IF p.dash > t THEN Times(DashSpeed, p.dashDir) ELSE Times(MoveSpeed, p.dir)

\* Where p is at time t of the tick when no wall stops it.
FreePosition(p, t) ==
    LET dashing == Least(t, p.dash)
    IN  Plus(p.pos, Plus(Times(dashing * DashSpeed, p.dashDir),
                         Times((t - dashing) * MoveSpeed, p.dir)))

-----------------------------------------------------------------------------
(* Contact of two bodies.  The tick is cut where a dash ends; on a segment *)
(* both velocities are constant, and the bodies touch when the length of   *)
(* offset + s * closing reaches CollisionDistance.                         *)

MovementBoundaries(p, q, delta) ==
    {0, delta} \cup {t \in {p.dash, q.dash} : 0 < t /\ t < delta}

\* Mutant: only the first segment is tested.
FirstSegmentOnly(p, q, delta) == {0} \ {delta}

SegmentStarts(p, q, delta) == MovementBoundaries(p, q, delta) \ {delta}

SegmentEnd(p, q, delta, start) ==
    Min({t \in MovementBoundaries(p, q, delta) : t > start})

\* The contact that two bodies make on the segment of the given length that
\* begins at time start, offset and closing being their relative position and
\* velocity: {} or one contact.
FindPlayerCollisionTime(offset, closing, start, length) ==
    LET c == Dot(offset, offset) - CollisionDistance * CollisionDistance
        a == Dot(closing, closing)
        b == 2 * Dot(offset, closing)
        disc == b * b - 4 * a * c
        late == -b - 2 * a * length
    IN  IF c <= 0 THEN {[base |-> start, b |-> 0, twoA |-> 1, disc |-> 0]}
        ELSE IF /\ a > 0
                /\ disc >= 0
                /\ b <= 0
                /\ late <= 0 \/ late * late <= disc
             THEN {[base |-> start, b |-> b, twoA |-> 2 * a, disc |-> disc]}
             ELSE {}

SegmentContact(p, q, delta, start) ==
    FindPlayerCollisionTime(Minus(FreePosition(q, start), FreePosition(p, start)),
                            Minus(Velocity(q, start), Velocity(p, start)),
                            start, SegmentEnd(p, q, delta, start) - start)

\* The contact on the first segment that has one.
FindPlayerCollisionTimeDuringTick(p, q, delta) ==
    UNION {SegmentContact(p, q, delta, t) : t \in
              {s \in SegmentStarts(p, q, delta) :
                  \A r \in SegmentStarts(p, q, delta) :
                      r < s => SegmentContact(p, q, delta, r) = {}}}

\* The contact comes strictly before the instant t.
Before(contact, t) ==
    LET rest == -contact.b - contact.twoA * (t - contact.base)
    IN  rest < 0 \/ rest * rest < contact.disc

Touching(u, v) ==
    Dot(Minus(u, v), Minus(u, v)) <= CollisionDistance * CollisionDistance

=============================================================================
