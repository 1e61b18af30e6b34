---------------------------- MODULE MCGameEpisode ----------------------------
(***************************************************************************)
(* A path level with a wall in the middle, and two Sokoban rooms with the  *)
(* one box and the one goal that the generator places, two cells apart.    *)
(***************************************************************************)
EXTENDS GameEpisode

Grid(h, w) == (0..h - 1) \X (0..w - 1)

SmallLevels ==
  { [game |-> "path", floor |-> Grid(2, 3) \ {<<1, 1>>}, start |-> <<1, 0>>,
     boxes |-> {}, goals |-> {<<0, 2>>}, limit |-> 4],
    [game |-> "sokoban", floor |-> Grid(1, 4), start |-> <<0, 0>>,
     boxes |-> {<<0, 1>>}, goals |-> {<<0, 3>>}, limit |-> 3],
    [game |-> "sokoban", floor |-> Grid(2, 4), start |-> <<1, 0>>,
     boxes |-> {<<0, 1>>}, goals |-> {<<0, 3>>}, limit |-> 4] }

\* A path level with the goal next to the start and one cell behind it.
Corridor ==
  { [game |-> "path", floor |-> Grid(1, 3), start |-> <<0, 1>>,
     boxes |-> {}, goals |-> {<<0, 2>>}, limit |-> 10] }

=============================================================================
