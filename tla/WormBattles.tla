------------------------------ MODULE WormBattles ------------------------------
(***************************************************************************)
(* The game src/games/worm-battles: one call of frame() at a time, and the   *)
(* keys that reset it. Lengths are classes 1 .. MaxLength that growing       *)
(* moves up in; which worm eats and whose head meets whose body is chosen    *)
(* in every frame. The score is counted in events.                          *)
(***************************************************************************)
EXTENDS Integers, Sequences, Functions, Filter

CONSTANTS
    AiCount,                    \* 18 in the code
    MaxLength, NewLengths,      \* classes of lengths, and those of a worm just made
    MaxScore                    \* bound

VARIABLES arena,    \* the game of the component, or Off
          stored    \* localStorage worm-arena-best

vars == <<arena, stored>>

Off == [mounted |-> FALSE]
Mounted == arena # Off

Player == 1     \* createInitialGame puts the player first, and nothing moves it

NewWorm(length) == [length |-> length, alive |-> TRUE]

InitialGames ==
    {[worms |-> [i \in 1 .. AiCount + 1 |-> IF i = Player THEN NewWorm(2) ELSE NewWorm(lengths[i])],
      score |-> 0, status |-> "playing"] : lengths \in [2 .. AiCount + 1 -> NewLengths]}

Longer(worm) == [worm EXCEPT !.length = IF @ < MaxLength THEN @ + 1 ELSE @]

Grown(s, w) == [s EXCEPT !.worms[w] = Longer(@)]

Fallen(s, w) == [s EXCEPT !.worms[w].alive = FALSE]

Scored(s) == [s EXCEPT !.score = IF @ < MaxScore THEN @ + 1 ELSE @]

-------------------------------------------------------------------------------
(***************************************************************************)
(* One frame while the status is playing.                                  *)
(***************************************************************************)
Alive(s) == {w \in DOMAIN s.worms : s.worms[w].alive}

Ate(s, w) == IF w = Player THEN Scored(Grown(s, w)) ELSE Grown(s, w)

Fed(s, eaters) ==
    LET upTo[w \in 0 .. Len(s.worms)] ==
            IF w = 0 THEN s ELSE IF w \in eaters THEN Ate(upTo[w - 1], w) ELSE upTo[w - 1]
    IN  upTo[Len(s.worms)]

\* The head of worm a is on the body of worm d. The longer one lives and grows; a player that runs
\* into a longer worm has lost.
Met(s, a, d) ==
    IF s.worms[a].length > s.worms[d].length
    THEN LET t == Grown(Fallen(s, d), a)
         IN  IF a = Player THEN Scored(t) ELSE t
    ELSE LET t == Fallen(s, a)
         IN  CASE a = Player -> [t EXCEPT !.status = "dead", !.best = IF t.score > @ THEN t.score ELSE @]
               [] d = Player -> Scored(Grown(t, d))
               [] OTHER -> t

Touched(s, a, d, contacts) ==
    IF d # a /\ s.worms[d].alive /\ <<a, d>> \in contacts THEN Met(s, a, d) ELSE s

\* An attacker in its turn looks at every defender not defeated yet; the one defeated in its own
\* turn goes on to the end of it.
Turned(s, a, contacts) ==
    LET upTo[d \in 0 .. Len(s.worms)] == IF d = 0 THEN s ELSE Touched(upTo[d - 1], a, d, contacts)
    IN  IF s.worms[a].alive THEN upTo[Len(s.worms)] ELSE s

\* Every worm is an attacker in its turn, apart from those defeated before it.
Fought(s, contacts) ==
    LET upTo[a \in 0 .. Len(s.worms)] == IF a = 0 THEN s ELSE Turned(upTo[a - 1], a, contacts)
    IN  upTo[Len(s.worms)]

Rivals(s) == Only(Tail(s.worms), {w \in Range(s.worms) : w.alive})

Joined(s, n) ==
    {[s EXCEPT !.worms = <<s.worms[Player]>> \o Rivals(s) \o [i \in 1 .. n |-> NewWorm(lengths[i])]] :
        lengths \in [1 .. n -> NewLengths]}

RefilledWithPlayer(s) ==                                            \* mutant
    Joined(s, AiCount - Len(Rivals(s)) + (IF s.worms[Player].alive THEN 0 ELSE 1))

\* The dead are dropped, apart from the player, and new worms come in their place.
Refilled(s) == Joined(s, AiCount - Len(Rivals(s)))

Played(s) ==
    UNION {Refilled(Fought(Fed(s, eaters), contacts)) :
              eaters \in SUBSET Alive(s),
              contacts \in SUBSET {c \in Alive(s) \X Alive(s) : c[1] # c[2]}}

\* Every 150 ms the numbers on the screen, and the best score, are brought up to date.
Told(s) == {s, [s EXCEPT !.best = IF s.score > @ THEN s.score ELSE @]}

Framed(s) == UNION {Told(t) : t \in IF s.status = "playing" THEN Played(s) ELSE {s}}

-------------------------------------------------------------------------------
Init == arena = Off /\ stored = 0

WithBest(g, b) == [worms |-> g.worms, score |-> g.score, status |-> g.status, best |-> b]

\* The effect reads the stored best; its cleanup.
Mount ==
    /\ ~Mounted
    /\ arena' \in {WithBest(g, stored) : g \in InitialGames}
    /\ UNCHANGED stored

Leave == Mounted /\ arena' = Off /\ UNCHANGED stored

Frame ==
    /\ Mounted
    /\ arena' \in Framed(arena)
    /\ stored' = IF arena'.best # arena.best THEN arena'.best ELSE stored

\* R or space, at any time.
ResetGame ==
    /\ Mounted
    /\ arena' \in {WithBest(g, arena.best) : g \in InitialGames}
    /\ UNCHANGED stored

Next == Mount \/ Leave \/ Frame \/ ResetGame

-------------------------------------------------------------------------------
\* After every frame, whoever fell in whose turn, all the rivals are alive and as many as at the
\* start; the player is told of its end only when it has one; and the best score is the one stored,
\* so that leaving at any moment loses nothing told (WormBattles.tsx:130-176, 209-217).
FieldIsFull ==
    Mounted => /\ Len(arena.worms) = AiCount + 1
               /\ \A w \in DOMAIN arena.worms \ {Player} : arena.worms[w].alive
               /\ arena.status = "dead" => ~arena.worms[Player].alive
               /\ arena.best = stored
================================================================================
