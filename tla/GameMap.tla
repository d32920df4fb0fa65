-------------------------------- MODULE GameMap --------------------------------
(***************************************************************************)
(* The map of the game: Map::Load and build_navigation_map (game_map.h,    *)
(* game_map.cpp) over what Tmx::Map::ParseFile (tmxparser) keeps of the    *)
(* map files.  One Tmx::Map parses every file that is loaded: it appends   *)
(* the layers and tilesets to those it has and never forgets an error.     *)
(*                                                                         *)
(* A file is what its XML says: the text of a number, its encoding and its *)
(* compression are left out, and so are images, opacity, visibility and    *)
(* object groups.  A gid is a word: its upper three bits say how the tile  *)
(* is flipped, the rest is the tile.  Tiles are <<x, y>>.                  *)
(***************************************************************************)
EXTENDS Integers, Sequences

CONSTANTS
  Word,         \* 2^32 in the program
  Files,        \* the map files, as records: whether the file can be read and
                \* parsed, the size of a tile, the tilesets and the layers
  MaxParsed     \* bound on the files that are parsed

ASSUME WordAssumption == Word % 8 = 0 /\ Word \in Nat \ {0}
ASSUME MaxParsedAssumption == MaxParsed \in Nat
ASSUME FilesAssumption ==
  LET Layers == UNION {{file.layers[i] : i \in DOMAIN file.layers} : file \in Files}
  IN  \A file \in Files :
        /\ file.tilesets \in Seq([firstgid : Nat \ {0}, walls : SUBSET Nat])
        /\ file.layers \in Seq(Layers)
        /\ \A i \in DOMAIN file.layers :
             LET layer == file.layers[i]
             IN  /\ layer.width \in Nat /\ layer.height \in Nat
                 /\ layer.gids \in [(0 .. layer.width - 1) \X (0 .. layer.height - 1)
                                      -> 0 .. Word - 1]

\* Map editors write the gid 0 for a cell without a tile, and no other gid before
\* the first tileset of the file.
ASSUME GidsAssumption ==
  \A file \in Files : \A i \in DOMAIN file.layers : \A c \in DOMAIN file.layers[i].gids :
    LET gid == file.layers[i].gids[c]
    IN  gid = 0 \/ \E j \in DOMAIN file.tilesets : file.tilesets[j].firstgid <= gid

VARIABLES
  tile_size,    \* tile_width, tile_height of the file parsed last
  tilesets,     \* those of all files, in order
  layers,       \* those of all files, in order, their gids decoded
  has_error,
  navigation_map_,  \* its width and height and the tiles that are 9
  parsed        \* history: the files that were parsed

mapVars == <<tile_size, tilesets, layers, has_error, navigation_map_, parsed>>

Cells(layer) == (0 .. layer.width - 1) \X (0 .. layer.height - 1)

\* A word as an int, as FindTilesetIndex takes the gid.
AsInt(gid) == IF gid < Word \div 2 THEN gid ELSE gid - Word

\* Faulty variant of FindTilesetIndex: the first tileset that could have the gid.
FindTilesetIndexFirst(gid, sets) ==
  LET may == {i \in DOMAIN sets : AsInt(gid) >= sets[i].firstgid}
  IN  IF may = {} THEN -1 ELSE (CHOOSE i \in may : \A j \in may : i <= j) - 1

\* The index, from 0, of the last tileset that begins at or before the gid.
FindTilesetIndex(gid, sets) ==
  LET may == {i \in DOMAIN sets : AsInt(gid) >= sets[i].firstgid}
  IN  IF may = {} THEN -1 ELSE (CHOOSE i \in may : \A j \in may : i >= j) - 1

\* MapTile: the bits for flipping are cut off, then the subtraction wraps.
MapTile(gid, sets) ==
  LET i == FindTilesetIndex(gid, sets)
      first == IF i = -1 THEN 0 ELSE sets[i + 1].firstgid
  IN  [tilesetId |-> i, id |-> ((gid % (Word \div 8)) - first) % Word]

\* Layer::Parse, with the tilesets parsed up to then.
Parse(layer, sets) ==
  [width |-> layer.width, height |-> layer.height,
   tiles |-> [c \in Cells(layer) |-> MapTile(layer.gids[c], sets)]]

\* GetTile and HasProperty: has a decoded tile the property "wall"?
HasWall(t, sets) ==
  t.tilesetId # -1 /\ AsInt(t.id) \in sets[t.tilesetId + 1].walls

\* The greatest of some numbers, or 0.
Greatest(S) == IF S = {} THEN 0 ELSE CHOOSE n \in S : \A m \in S : n >= m

\* Faulty variant of build_navigation_map: it is as large as the first layer.
build_navigation_mapOfFirst(ls, sets) ==
  [width |-> ls[1].width, height |-> ls[1].height,
   walls |-> {c \in Cells(ls[1]) : \E i \in DOMAIN ls :
                c \in Cells(ls[i]) /\ HasWall(ls[i].tiles[c], sets)}]

\* A tile is a wall if it is one in any layer; the map holds all layers.
build_navigation_map(ls, sets) ==
  [width  |-> Greatest({ls[i].width : i \in DOMAIN ls}),
   height |-> Greatest({ls[i].height : i \in DOMAIN ls}),
   walls  |-> UNION {{c \in Cells(ls[i]) : HasWall(ls[i].tiles[c], sets)} : i \in DOMAIN ls}]

-----------------------------------------------------------------------------
GameMapInit == /\ tile_size = [a \in {"x", "y"} |-> 0]
               /\ tilesets = <<>> /\ layers = <<>>
               /\ has_error = FALSE
               /\ navigation_map_ = [width |-> 0, height |-> 0, walls |-> {}]
               /\ parsed = <<>>

\* ParseFile of a file that cannot be opened or is not XML.
ParseFails(file) == /\ ~file.readable
                    /\ has_error' = TRUE
                    /\ UNCHANGED <<tile_size, tilesets, layers, parsed>>

\* ParseText of a map.
ParseSucceeds(file) ==
  /\ file.readable /\ Len(parsed) < MaxParsed
  /\ tile_size' = file.tile
  /\ tilesets' = tilesets \o file.tilesets
  /\ layers' = layers \o [i \in DOMAIN file.layers |-> Parse(file.layers[i], tilesets')]
  /\ parsed' = Append(parsed, file)
  /\ UNCHANGED has_error

ParseFile(file) == ParseFails(file) \/ ParseSucceeds(file)

\* Load: without an error, of this file or one before, the map is built.
Load(file) ==
  /\ ParseFile(file)
  /\ navigation_map_' = IF has_error' THEN navigation_map_
                        ELSE build_navigation_map(layers', tilesets')

\* Map::navigation_map: what is not on the map is a wall.
IsWall(c) == \/ ~(c[1] \in 0 .. navigation_map_.width - 1 /\ c[2] \in 0 .. navigation_map_.height - 1)
             \/ c \in navigation_map_.walls

-----------------------------------------------------------------------------
(* What a file says, for one that was drawn up as map editors do: its gids *)
(* from the firstgid of a tileset to the next are the tiles of that set.   *)

\* The gid without the bits for flipping is a wall in the file.
WallIn(file, gid) ==
  \E i \in DOMAIN file.tilesets :
    /\ (gid % (Word \div 8)) - file.tilesets[i].firstgid \in file.tilesets[i].walls
    /\ \A j \in DOMAIN file.tilesets : j > i => gid % (Word \div 8) < file.tilesets[j].firstgid

WallOf(file, c, Gids) ==
  \E i \in DOMAIN file.layers : /\ c \in Cells(file.layers[i])
                                /\ file.layers[i].gids[c] \in Gids
                                /\ WallIn(file, file.layers[i].gids[c])

Unflipped == 0 .. (Word \div 8) - 1

Latest == parsed[Len(parsed)]

\* "Find the tileset index for a tileset using a tile gid" (TmxMap.h:114): the
\* map loaded last has all its walls, whatever was loaded before and however
\* the gids of the two files overlap.  Walls that are flipped are lost: their
\* gid is negative as an int, or finds the last tileset (TmxMap.cpp:236-248).
WallsBlock ==
  parsed # <<>> /\ ~has_error =>
    \A i \in DOMAIN Latest.layers : \A c \in Cells(Latest.layers[i]) :
      WallOf(Latest, c, Unflipped) => IsWall(c)

\* No wall is invented: where an object may not go, a map that was loaded has a
\* wall or no map has a tile.  Those of the maps before remain, since the
\* layers are appended (TmxMap.cpp:196-220, game_map.cpp:34-75).
WallsAreFromFiles ==
  ~has_error =>
    \A k \in DOMAIN parsed : \A i \in DOMAIN parsed[k].layers :
      \A c \in Cells(parsed[k].layers[i]) :
        IsWall(c) => \E m \in DOMAIN parsed : WallOf(parsed[m], c, 0 .. Word - 1)
=============================================================================
