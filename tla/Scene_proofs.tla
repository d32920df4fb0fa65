------------------------------- MODULE Scene_proofs -------------------------------
(***************************************************************************)
(* For every screen, sheet of frames, set of map files and place of an     *)
(* object: what is drawn of the object is right, a click hits the tile     *)
(* that is shown, the walls of the map loaded last are there, and no wall  *)
(* is there that is in no map.                                             *)
(***************************************************************************)
EXTENDS Scene, Scroller_proofs, SequenceTheorems, WellFoundedInduction

\* While no map has failed to load, the scroller has the tile size of the map.
SizesAgree == ~has_error /\ Loaded => tile = tile_size

\* A word is its own remainder.
LEMMA RemainderOfWord ==
  ASSUME NEW w \in Nat \ {0}, NEW n \in 0 .. w - 1 PROVE n % w = n
OBVIOUS

\* Remainders are numbers.
LEMMA RemainderType ==
  ASSUME NEW w \in Nat \ {0}, NEW n \in Int PROVE n % w \in Nat
OBVIOUS

-----------------------------------------------------------------------------
\* Every step of the scene is one of the scroller or leaves it as it is: what
\* was proved of the scroller holds in the scene.
THEOREM SceneUsesScroller == SceneSpec => Spec
<1>1. SceneInit => Init
  BY DEF SceneInit
<1>2. ASSUME NEW file \in Files, load_map(file) PROVE [Next]_vars
  BY <1>2 DEF load_map, Next
<1>3. ASSUME NEW hero \in Heros, iteration(hero) PROVE [Next]_vars
  BY <1>3 DEF iteration, Next
<1>4. UNCHANGED sceneVars => [Next]_vars
  BY DEF sceneVars
<1>5. [SceneNext]_sceneVars => [Next]_vars
  BY <1>2, <1>3, <1>4 DEF SceneNext
<1> QED
  BY <1>1, <1>5, PTL DEF SceneSpec, Spec

\* Loading sets both sizes or reports an error; moving the view sets neither.
LEMMA SizesAgreeStep ==
  ASSUME SizesAgree, [SceneNext]_sceneVars PROVE SizesAgree'
<1>1. ASSUME NEW file \in Files, load_map(file) PROVE SizesAgree'
  <2>1. CASE has_error'
    BY <2>1 DEF SizesAgree
  <2>2. CASE ~has_error'
    BY <1>1, <2>2 DEF load_map, SizesAgree
  <2> QED
    BY <2>1, <2>2
<1>2. ASSUME NEW hero \in Heros, iteration(hero) PROVE SizesAgree'
  BY <1>2 DEF iteration, move, mapVars, SizesAgree, Loaded
<1>3. UNCHANGED sceneVars => SizesAgree'
  BY DEF sceneVars, vars, mapVars, SizesAgree, Loaded
<1> QED
  BY <1>1, <1>2, <1>3 DEF SceneNext

\* The picture on the screen is that of the background at the view.
PictureInv == picture # <<>> => picture = [a \in Axes |-> BackgroundPixel(a)]

\* Moving the view draws the picture or leaves none; so does loading a map.
LEMMA PictureStep ==
  ASSUME PictureInv, [SceneNext]_sceneVars PROVE PictureInv'
<1>1. ASSUME NEW file \in Files, load_map(file) PROVE PictureInv'
  BY <1>1 DEF load_map, PictureInv
<1>2. ASSUME NEW hero \in Heros, iteration(hero) PROVE PictureInv'
  BY <1>2 DEF iteration, PictureInv
<1>3. UNCHANGED sceneVars => PictureInv'
  BY DEF sceneVars, vars, PictureInv, BackgroundPixel
<1> QED
  BY <1>1, <1>2, <1>3 DEF SceneNext

\* In an iteration that has drawn, and on an axis that was drawn anew since the
\* last map was loaded, a click sends the hero to the tile that is shown under
\* the mouse, as long as no map has failed to load.
THEOREM ClickIsRight == SceneSpec => []ClickHitsShownTile
<1>1. SceneInit => SizesAgree /\ PictureInv
  BY DEF SceneInit, Init, SizesAgree, PictureInv, Loaded
<1>2. SceneSpec => [](SizesAgree /\ PictureInv)
  BY <1>1, SizesAgreeStep, PictureStep, PTL DEF SceneSpec
<1>3. ScrollInv /\ ShowsView /\ SizesAgree /\ PictureInv => ClickHitsShownTile
  <2> SUFFICES ASSUME ScrollInv, ShowsView, SizesAgree, PictureInv,
                      NEW a \in Axes, picture # <<>>, settled[a], ~has_error
               PROVE  view[a] = picture[a] /\ tile = tile_size
    BY DEF ClickHitsShownTile
  <2>1. picture[a] = BackgroundPixel(a)
    BY DEF PictureInv
  <2>2. BackgroundPixel(a) = view[a]
    BY DEF ShowsView
  <2>3. tile = tile_size
    BY DEF ScrollInv, SizesAgree
  <2> QED
    BY <2>1, <2>2, <2>3
<1> QED
  BY <1>2, <1>3, SceneUsesScroller, ScrollInvCorrect, BothLayersShowView, PTL

-----------------------------------------------------------------------------
\* A number that fits into 16 bits with a sign is kept.
LEMMA SignedFits ==
  ASSUME NEW v \in Int, v >= -(RectWord \div 2), v < RectWord \div 2 PROVE Signed(v) = v
<1>1. RectWord \in Nat
  BY RectWordAssumption
<1>2. v + RectWord \div 2 \in 0 .. RectWord - 1
  BY <1>1
<1>3. RectWord \in Nat \ {0}
  BY <1>1, <1>2
<1>4. (v + RectWord \div 2) % RectWord = v + RectWord \div 2
  BY <1>2, <1>3, RemainderOfWord
<1>5. RectWord \div 2 \in Int
  BY <1>1
<1> QED
  BY <1>4, <1>5 DEF Signed

\* What is drawn of a frame at pos on a screen, when on_screen lets it through,
\* is the part of it that is visible.
LEMMA CutRight ==
  ASSUME NEW a \in Axes, NEW o \in Int, NEW box \in Boxes[a],
         view[a] \in Nat, on_screen(o, box, a),
         NEW p \in 0 .. Screen[a]
  PROVE  LET pos == o - view[a]
             rect == lowblit(o, box, a)
             Visible == p \in 0 .. Screen[a] - 1 /\ p \in pos .. pos + box.len - 1
         IN  /\ (p \in rect.to .. rect.to + Blitted(rect, a) - 1) <=> Visible
             /\ Visible => rect.from + p - rect.to = box.from + p - pos
<1> DEFINE pos == o - view[a]
           S == Screen[a]
           l == box.len
           rect == lowblit(o, box, a)
           Visible == p \in 0 .. S - 1 /\ p \in pos .. pos + l - 1
<1>1. /\ box.from \in Nat /\ l \in Nat /\ S \in Nat /\ Sheet[a] \in Nat
      /\ RectWord \in Nat /\ RectWord \div 2 \in Nat /\ RectWord \div 2 <= RectWord
      /\ S + Sheet[a] < RectWord \div 2
      /\ box.from + l <= Sheet[a]
  BY BoxesAssumption, ScreenAssumption, SheetAssumption, RectWordAssumption
<1>2. pos \in Int /\ pos >= -l /\ pos <= l + S
  BY <1>1 DEF on_screen
<1>3. CASE pos < 0
  <2>1. (l + pos) % RectWord = l + pos
    <3>1. l + pos \in 0 .. RectWord - 1 /\ RectWord \in Nat \ {0}
      BY <1>1, <1>2, <1>3
    <3> QED
      BY <3>1, RemainderOfWord
  <2>2. rect = [from |-> box.from - pos, len |-> l + pos, to |-> 0]
    <3>1. Signed(box.from - pos) = box.from - pos
      BY <1>1, <1>2, <1>3, SignedFits
    <3> QED
      BY <1>3, <2>1, <3>1 DEF lowblit
  <2>3. Blitted(rect, a) = IF l + pos <= S THEN l + pos ELSE S
    BY <1>1, <1>2, <1>3, <2>2 DEF Blitted, Least
  <2> QED
    BY <1>1, <1>2, <1>3, <2>2, <2>3
<1>4. pos >= 0 => Signed(pos) = pos
  BY <1>1, <1>2, SignedFits
<1>5. CASE pos >= 0 /\ pos + l > S
  <2>1. rect = [from |-> box.from, len |-> (S - pos) % RectWord, to |-> pos]
    BY <1>2, <1>5, <1>4 DEF lowblit
  <2>2. CASE pos <= S
    <3>1. (S - pos) % RectWord = S - pos
      <4>1. S - pos \in 0 .. RectWord - 1 /\ RectWord \in Nat \ {0}
        BY <1>1, <1>2, <1>5, <2>2
      <4> QED
        BY <4>1, RemainderOfWord
    <3>2. Blitted(rect, a) = S - pos
      BY <1>1, <1>2, <1>5, <2>1, <2>2, <3>1 DEF Blitted, Least
    <3> QED
      BY <1>1, <1>2, <1>5, <2>1, <3>2
  <2>3. CASE pos > S
    <3>1. (S - pos) % RectWord \in Nat
      <4>1. S - pos \in Int /\ RectWord \in Nat \ {0}
        BY <1>1, <1>2
      <4> HIDE DEF S, pos
      <4> QED
        BY <4>1, RemainderType
    <3>2. Blitted(rect, a) \in Int /\ Blitted(rect, a) <= S - pos
      BY <1>1, <1>2, <2>1, <3>1 DEF Blitted, Least
    <3> QED
      BY <1>1, <1>2, <2>1, <2>3, <3>2
  <2> QED
    BY <1>1, <1>2, <2>2, <2>3
<1>6. CASE pos >= 0 /\ pos + l <= S
  <2>1. rect = [from |-> box.from, len |-> l, to |-> pos]
    BY <1>1, <1>2, <1>6, <1>4 DEF lowblit
  <2>2. Blitted(rect, a) = l
    BY <1>1, <1>2, <1>6, <2>1 DEF Blitted, Least
  <2> QED
    BY <1>1, <1>2, <1>6, <2>1, <2>2
<1> QED
  BY <1>1, <1>2, <1>3, <1>5, <1>6

\* What on_screen keeps from being drawn is not in the view.
LEMMA OffScreen ==
  ASSUME NEW a \in Axes, NEW o \in Int, NEW box \in Boxes[a],
         view[a] \in Nat, ~on_screen(o, box, a),
         NEW p \in 0 .. Screen[a]
  PROVE  ~(p \in 0 .. Screen[a] - 1 /\ p \in o - view[a] .. o - view[a] + box.len - 1)
<1>1. box.len \in Nat /\ Screen[a] \in Nat
  BY BoxesAssumption, ScreenAssumption
<1> QED
  BY <1>1 DEF on_screen

\* The visible part of every object is drawn, and nothing else.
THEOREM PictureIsRight == SceneSpec => []PictureRight
<1>1. ScrollInv => PictureRight
  <2> SUFFICES ASSUME ScrollInv, NEW a \in Axes, NEW o \in Places[a], NEW box \in Boxes[a],
                      NEW p \in 0 .. Screen[a]
               PROVE  LET pos == o - view[a]
                          rect == lowblit(o, box, a)
                          Visible == p \in 0 .. Screen[a] - 1 /\ p \in pos .. pos + box.len - 1
                      IN  IF on_screen(o, box, a)
                          THEN /\ (p \in rect.to .. rect.to + Blitted(rect, a) - 1) <=> Visible
                               /\ Visible => rect.from + p - rect.to = box.from + p - pos
                          ELSE ~Visible
    BY DEF PictureRight
  <2>1. o \in Int /\ view[a] \in Nat
    BY PlacesAssumption DEF ScrollInv, TypeOK
  <2>2. CASE on_screen(o, box, a)
    BY <2>1, <2>2, CutRight
  <2>3. CASE ~on_screen(o, box, a)
    BY <2>1, <2>3, OffScreen
  <2> QED
    BY <2>2, <2>3
<1> QED
  BY <1>1, SceneUsesScroller, ScrollInvCorrect, PTL

-----------------------------------------------------------------------------
(* The walls of the map that was loaded last.                              *)

Tilesets == Seq([firstgid : Nat \ {0}, walls : SUBSET Nat])
FileLayers == UNION {{file.layers[i] : i \in DOMAIN file.layers} : file \in Files}
Decoded == {Parse(layer, sets) : layer \in FileLayers, sets \in Tilesets}

\* The layers of a file, decoded.
Decode(file, sets) == [i \in DOMAIN file.layers |-> Parse(file.layers[i], sets)]

\* The tilesets and layers of the latest file are at the end of the lists, and
\* the map was built of these lists.
MapInv ==
  /\ tilesets \in Tilesets /\ layers \in Seq(Decoded) /\ parsed \in Seq(Files)
  /\ parsed # <<>> =>
       /\ \E sets \in Tilesets : tilesets = sets \o Latest.tilesets
       /\ \E ls \in Seq(Decoded) : layers = ls \o Decode(Latest, tilesets)
       /\ ~has_error => navigation_map_ = build_navigation_map(layers, tilesets)

\* The decoded layers of a file are a sequence as long as those of the file.
LEMMA DecodeType ==
  ASSUME NEW file \in Files, NEW sets \in Tilesets
  PROVE  /\ Decode(file, sets) \in Seq(Decoded)
         /\ DOMAIN Decode(file, sets) = DOMAIN file.layers
<1>1. file.layers \in Seq(FileLayers)
  BY FilesAssumption DEF FileLayers
<1>2. PICK n \in Nat : file.layers \in [1 .. n -> FileLayers]
  BY <1>1, SeqDef
<1>3. Decode(file, sets) \in [1 .. n -> Decoded]
  BY <1>2 DEF Decode, Decoded
<1> QED
  BY <1>2, <1>3, SeqDef

\* Whatever is loaded, and whether it fails or not, the invariant is kept.
LEMMA LoadKeepsMapInv ==
  ASSUME MapInv, NEW file \in Files, Load(file) PROVE MapInv'
<1>1. CASE ParseFails(file)
  BY <1>1 DEF Load, ParseFails, MapInv, Latest
<1>2. CASE ParseSucceeds(file)
  <2>1. /\ tilesets' = tilesets \o file.tilesets
        /\ layers' = layers \o Decode(file, tilesets')
        /\ parsed' = Append(parsed, file)
    BY <1>2 DEF ParseSucceeds, Decode
  <2>2. tilesets' \in Tilesets
    BY <2>1, FilesAssumption, ConcatProperties DEF MapInv, Tilesets
  <2>3. layers' \in Seq(Decoded)
    BY <2>1, <2>2, DecodeType, ConcatProperties DEF MapInv
  <2>4. parsed' \in Seq(Files) /\ Latest' = file
    BY <2>1 DEF MapInv, Latest
  <2>5. ~has_error' => navigation_map_' = build_navigation_map(layers', tilesets')
    BY DEF Load
  <2>6. /\ \E sets \in Tilesets : tilesets' = sets \o (Latest.tilesets)'
        /\ \E ls \in Seq(Decoded) : layers' = ls \o Decode(Latest', tilesets')
    BY <2>1, <2>4 DEF MapInv
  <2> QED
    BY <2>2, <2>3, <2>4, <2>5, <2>6 DEF MapInv, build_navigation_map, Decode
<1> QED
  BY <1>1, <1>2 DEF Load, ParseFile

\* A gid without flips that the latest file has as a wall is found to be one,
\* whatever tilesets were parsed before.
LEMMA WallIsFound ==
  ASSUME NEW file \in Files, NEW sets \in Tilesets, NEW gid \in Unflipped, WallIn(file, gid)
  PROVE  HasWall(MapTile(gid, sets \o file.tilesets), sets \o file.tilesets)
<1> DEFINE own == file.tilesets
           all == sets \o own
<1>1. own \in Tilesets
  BY FilesAssumption DEF Tilesets
<1>2. /\ all \in Tilesets /\ Len(sets) \in Nat /\ Len(own) \in Nat
      /\ DOMAIN all = 1 .. Len(sets) + Len(own) /\ DOMAIN own = 1 .. Len(own)
      /\ \A k \in 1 .. Len(own) : all[Len(sets) + k] = own[k]
      /\ \A j \in DOMAIN all : all[j].firstgid \in Nat
  <2>1. /\ all \in Tilesets /\ Len(all) = Len(sets) + Len(own)
        /\ \A j \in 1 .. Len(sets) + Len(own) :
             all[j] = IF j <= Len(sets) THEN sets[j] ELSE own[j - Len(sets)]
    BY <1>1, ConcatProperties DEF Tilesets
  <2>2. /\ Len(sets) \in Nat /\ Len(own) \in Nat
        /\ DOMAIN all = 1 .. Len(all) /\ DOMAIN own = 1 .. Len(own)
    BY <1>1, <2>1, LenProperties DEF Tilesets
  <2>3. \A j \in DOMAIN all : all[j] \in [firstgid : Nat \ {0}, walls : SUBSET Nat]
    BY <2>1, <2>2, ElementOfSeq DEF Tilesets
  <2>4. ASSUME NEW j \in 1 .. Len(own) PROVE all[Len(sets) + j] = own[j]
    BY <2>1, <2>2
  <2> HIDE DEF all, own
  <2> QED
    BY <2>1, <2>2, <2>3, <2>4
<1>3. gid \in Nat /\ gid % (Word \div 8) = gid /\ gid < Word \div 8 /\ AsInt(gid) = gid
      /\ Word \in Nat
  BY WordAssumption DEF Unflipped, AsInt
<1>4. PICK k \in 1 .. Len(own) :
        /\ gid - own[k].firstgid \in own[k].walls
        /\ \A j \in 1 .. Len(own) : j > k => gid < own[j].firstgid
  BY <1>2, <1>3 DEF WallIn
<1>5. own[k].firstgid \in Nat /\ gid - own[k].firstgid \in Nat
  <2>1. own[k] \in [firstgid : Nat \ {0}, walls : SUBSET Nat]
    BY <1>1, ElementOfSeq DEF Tilesets
  <2> QED
    BY <1>4, <2>1
<1> DEFINE n == Len(sets) + k
           may == {i \in DOMAIN all : gid >= all[i].firstgid}
<1>6. n \in may
  BY <1>2, <1>3, <1>5
<1>7. ASSUME NEW j \in may PROVE n >= j
  <2>1. CASE j > n
    <3>1. j - Len(sets) \in 1 .. Len(own) /\ j - Len(sets) > k
      BY <1>2, <2>1
    <3>2. all[j] = own[j - Len(sets)]
      BY <1>2, <3>1
    <3> QED
      BY <1>2, <1>3, <1>4, <3>1, <3>2
  <2> QED
    BY <1>2, <2>1
<1>8. (CHOOSE i \in may : \A j \in may : i >= j) = n
  BY <1>2, <1>6, <1>7
<1>9. FindTilesetIndex(gid, all) = n - 1
  BY <1>3, <1>6, <1>8 DEF FindTilesetIndex
<1>10. all[n] = own[k] /\ n \in Nat \ {0}
  BY <1>2
<1>11. (gid - own[k].firstgid) % Word = gid - own[k].firstgid
       /\ AsInt(gid - own[k].firstgid) = gid - own[k].firstgid
  <2>1. gid - own[k].firstgid \in 0 .. gid
    BY <1>3, <1>5
  <2>2. ASSUME NEW d \in 0 .. gid PROVE d % Word = d /\ AsInt(d) = d
    BY <1>3, WordAssumption DEF AsInt
  <2> HIDE DEF own
  <2> QED
    BY <2>1, <2>2
<1> HIDE DEF all, own, may
<1>12. n - 1 # -1 /\ n - 1 + 1 = n
  BY <1>10
<1>13. MapTile(gid, all) = [tilesetId |-> n - 1, id |-> gid - own[k].firstgid]
  BY <1>3, <1>9, <1>10, <1>11, <1>12 DEF MapTile
<1>14. HasWall(MapTile(gid, all), all)
  BY <1>4, <1>10, <1>11, <1>12, <1>13 DEF HasWall
<1> QED
  BY <1>14 DEF all, own

\* The invariant holds in every state of the scene.
LEMMA MapInvCorrect == SceneSpec => []MapInv
<1>1. SceneInit => MapInv
  BY DEF SceneInit, GameMapInit, MapInv, Tilesets
<1>2. MapInv /\ [SceneNext]_sceneVars => MapInv'
  <2>1. ASSUME MapInv, UNCHANGED mapVars PROVE MapInv'
    <3>1. /\ tilesets' = tilesets /\ layers' = layers /\ parsed' = parsed
          /\ has_error' = has_error /\ navigation_map_' = navigation_map_
      BY <2>1 DEF mapVars
    <3>2. Latest' = Latest
      BY <3>1 DEF Latest
    <3>3. Decode(Latest, tilesets)' = Decode(Latest, tilesets)
      BY <3>1, <3>2 DEF Decode
    <3>4. build_navigation_map(layers, tilesets)' = build_navigation_map(layers, tilesets)
      BY <3>1
    <3> QED
      BY <2>1, <3>1, <3>2, <3>3, <3>4 DEF MapInv
  <2> QED
    BY <2>1, LoadKeepsMapInv DEF SceneNext, load_map, iteration, sceneVars
<1> QED
  BY <1>1, <1>2, PTL DEF SceneSpec

\* Every unflipped wall of the map that was loaded last is a wall of the game.
THEOREM WallsDoBlock == SceneSpec => []WallsBlock
<1>1. MapInv => WallsBlock
  <2> SUFFICES ASSUME MapInv, parsed # <<>>, ~has_error, NEW c,
                      WallOf(Latest, c, Unflipped)
               PROVE  c \in navigation_map_.walls
    BY DEF WallsBlock, IsWall
  <2>1. Latest \in Files
    BY DEF MapInv, Latest
  <2>2. PICK sets \in Tilesets, ls \in Seq(Decoded) :
          /\ tilesets = sets \o Latest.tilesets
          /\ layers = ls \o Decode(Latest, tilesets)
    BY DEF MapInv
  <2>3. PICK k \in DOMAIN Latest.layers :
          /\ c \in Cells(Latest.layers[k])
          /\ Latest.layers[k].gids[c] \in Unflipped
          /\ WallIn(Latest, Latest.layers[k].gids[c])
    BY DEF WallOf
  <2> DEFINE layer == Parse(Latest.layers[k], tilesets)
  <2>4. PICK i \in DOMAIN layers : layers[i] = layer
    <3>1. /\ Decode(Latest, tilesets) \in Seq(Decoded)
          /\ DOMAIN Decode(Latest, tilesets) = DOMAIN Latest.layers
      BY <2>1, DecodeType DEF MapInv
    <3>2. Decode(Latest, tilesets)[k] = layer
      BY <2>3 DEF Decode
    <3>3. k \in 1 .. Len(Decode(Latest, tilesets)) /\ Len(ls) \in Nat
      BY <2>3, <3>1, LenProperties
    <3> DEFINE own == Decode(Latest, tilesets)
    <3>4. Len(layers) = Len(ls) + Len(own) /\ DOMAIN layers = 1 .. Len(layers)
      BY <2>2, <3>1, ConcatProperties, LenProperties DEF MapInv
    <3>5. \A j \in 1 .. Len(ls) + Len(own) :
            layers[j] = IF j <= Len(ls) THEN ls[j] ELSE own[j - Len(ls)]
      BY <2>2, <3>1, ConcatProperties
    <3> HIDE DEF layer, own
    <3>6. layers[Len(ls) + k] = own[k] /\ Len(ls) + k \in DOMAIN layers
      BY <3>3, <3>4, <3>5 DEF own
    <3> QED
      BY <3>2, <3>6 DEF own
  <2>5. c \in Cells(layer)
    BY <2>3 DEF Cells, Parse
  <2>6. HasWall(layer.tiles[c], tilesets)
    BY <2>1, <2>2, <2>3, WallIsFound DEF Parse
  <2> HIDE DEF layer
  <2>7. c \in UNION {{d \in Cells(layers[j]) : HasWall(layers[j].tiles[d], tilesets)} : j \in DOMAIN layers}
    BY <2>4, <2>5, <2>6
  <2> QED
    BY <2>7 DEF MapInv, build_navigation_map
<1> QED
  BY <1>1, MapInvCorrect, PTL

-----------------------------------------------------------------------------
(* No wall is invented.                                                    *)

\* A set of numbers that is not empty has a least one.
LEMMA LeastNumber ==
  ASSUME NEW T, T \subseteq Nat, T # {} PROVE \E x \in T : \A y \in T : x <= y
<1>1. IsWellFoundedOn({p \in Nat \X Nat : p[1] < p[2]}, Nat)
  BY NatLessThanWellFounded DEF OpToRel
<1>2. PICK x \in T : \A y \in T : <<y, x>> \notin {p \in Nat \X Nat : p[1] < p[2]}
  BY <1>1, WFMin
<1>3. ASSUME NEW y \in T PROVE x <= y
  <2>1. ~(y < x)
    BY <1>2
  <2> QED
    BY <2>1
<1> QED
  BY <1>3

\* A list of numbers that is not empty has a greatest one.
LEMMA GreatestInList ==
  ASSUME NEW n \in Nat \ {0}, NEW w \in [1 .. n -> Nat]
  PROVE  \E i \in 1 .. n : \A j \in 1 .. n : w[i] >= w[j]
<1> DEFINE Has(k) == \E i \in 1 .. k : \A j \in 1 .. k : w[i] >= w[j]
           Bad == {k \in 1 .. n : ~Has(k)}
<1>1. Has(1)
  OBVIOUS
<1>2. ASSUME NEW k \in 2 .. n, Has(k - 1) PROVE Has(k)
  <2>1. PICK i \in 1 .. k - 1 : \A j \in 1 .. k - 1 : w[i] >= w[j]
    BY <1>2
  <2>2. \A j \in 1 .. k : j = k \/ j \in 1 .. k - 1
    OBVIOUS
  <2>3. CASE w[i] >= w[k]
    <3>1. i \in 1 .. k /\ \A j \in 1 .. k : w[i] >= w[j]
      BY <2>1, <2>2, <2>3
    <3> QED
      BY <3>1
  <2>4. CASE ~(w[i] >= w[k])
    <3>1. \A j \in 1 .. k : w[k] >= w[j]
      BY <2>1, <2>2, <2>4
    <3> QED
      BY <3>1
  <2> QED
    BY <2>3, <2>4
<1>3. Has(n)
  <2> HIDE DEF Has
  <2> SUFFICES ASSUME Bad # {} PROVE FALSE
    OBVIOUS
  <2>1. PICK k \in Bad : \A m \in Bad : k <= m
    <3>1. Bad \subseteq Nat
      OBVIOUS
    <3> HIDE DEF Bad
    <3> QED
      BY <3>1, LeastNumber
  <2>2. k \in 2 .. n
    <3>1. k \in 1 .. n /\ k # 1
      BY <1>1
    <3> QED
      BY <3>1
  <2>3. k - 1 \in 1 .. n /\ ~(k <= k - 1)
    BY <2>2
  <2>4. k - 1 \notin Bad
    <3> HIDE DEF Bad
    <3> QED
      BY <2>1, <2>3
  <2> QED
    BY <1>2, <2>2, <2>3, <2>4
<1> QED
  BY <1>3

\* Every decoded layer is one of a file that was parsed, decoded with the
\* tilesets up to that file's, and every layer of those files is there.
SourceOf(layer, file, k, before, after) ==
  /\ layer = Parse(file.layers[k], before \o file.tilesets)
  /\ tilesets = (before \o file.tilesets) \o after

HasSource(layer) ==
  \E m \in DOMAIN parsed : \E k \in DOMAIN parsed[m].layers :
    \E before, after \in Tilesets : SourceOf(layer, parsed[m], k, before, after)

Sources ==
  /\ \A j \in DOMAIN layers : HasSource(layers[j])
  /\ \A m \in DOMAIN parsed : \A k \in DOMAIN parsed[m].layers : \E j \in DOMAIN layers :
       /\ layers[j].width = parsed[m].layers[k].width
       /\ layers[j].height = parsed[m].layers[k].height

\* Loading keeps the sources of the layers and adds the file's.
LEMMA LoadKeepsSources ==
  ASSUME MapInv, MapInv', Sources, NEW file \in Files, Load(file) PROVE Sources'
<1>1. CASE ParseFails(file)
  BY <1>1 DEF ParseFails, Sources, HasSource, SourceOf
<1>2. CASE ParseSucceeds(file)
  <2> DEFINE own == Decode(file, tilesets')
             nl == Len(layers)
  <2>1. /\ tilesets' = tilesets \o file.tilesets
        /\ layers' = layers \o own
        /\ parsed' = Append(parsed, file)
    BY <1>2 DEF ParseSucceeds, Decode
  <2>2. /\ tilesets \in Tilesets /\ tilesets' \in Tilesets /\ file.tilesets \in Tilesets
        /\ \A m \in DOMAIN parsed : parsed[m].tilesets \in Tilesets
    <3>1. \A m \in DOMAIN parsed : parsed[m] \in Files
      BY DEF MapInv
    <3> QED
      BY <3>1, FilesAssumption DEF MapInv, Tilesets
  <2>3. own \in Seq(Decoded) /\ DOMAIN own = DOMAIN file.layers
    BY <2>2, DecodeType
  <2>4. /\ nl \in Nat /\ Len(own) \in Nat
        /\ DOMAIN layers = 1 .. nl /\ DOMAIN own = 1 .. Len(own)
        /\ DOMAIN layers' = 1 .. nl + Len(own)
        /\ \A j \in 1 .. nl + Len(own) : layers'[j] = IF j <= nl THEN layers[j] ELSE own[j - nl]
    <3>1. layers \in Seq(Decoded)
      BY DEF MapInv
    <3> HIDE DEF own
    <3>2. layers' \in Seq(Decoded) /\ Len(layers') = nl + Len(own)
      BY <2>1, <2>3, <3>1, ConcatProperties
    <3> QED
      BY <2>1, <2>3, <3>1, <3>2, ConcatProperties, LenProperties
  <2>5. PICK np \in Nat : /\ DOMAIN parsed = 1 .. np /\ DOMAIN parsed' = 1 .. np + 1
                          /\ \A m \in 1 .. np : parsed'[m] = parsed[m]
                          /\ parsed'[np + 1] = file
    <3>1. /\ Len(parsed) \in Nat
          /\ DOMAIN parsed = 1 .. Len(parsed) /\ DOMAIN parsed' = 1 .. Len(parsed) + 1
          /\ \A m \in 1 .. Len(parsed) : parsed'[m] = parsed[m]
          /\ parsed'[Len(parsed) + 1] = file
      BY <2>1, AppendProperties, LenProperties DEF MapInv
    <3> QED
      BY <3>1
  <2> HIDE DEF nl
  <2>6. ASSUME NEW j \in DOMAIN layers'
        PROVE  \E m \in DOMAIN parsed' : \E k \in DOMAIN parsed'[m].layers :
                 \E before, after \in Tilesets : SourceOf(layers[j], parsed[m], k, before, after)'
    <3>1. CASE j <= nl
      <4>1. j \in DOMAIN layers /\ layers'[j] = layers[j]
        BY <2>4, <2>6, <3>1
      <4>2. PICK m \in DOMAIN parsed : \E k \in DOMAIN parsed[m].layers :
              \E before, after \in Tilesets : SourceOf(layers[j], parsed[m], k, before, after)
        BY <4>1 DEF Sources, HasSource
      <4>8. PICK k \in DOMAIN parsed[m].layers, before \in Tilesets, after \in Tilesets :
              SourceOf(layers[j], parsed[m], k, before, after)
        BY <4>2
      <4> DEFINE upto == before \o parsed[m].tilesets
      <4>3. upto \in Tilesets
        BY <2>2, ConcatProperties DEF Tilesets
      <4>4. tilesets = upto \o after
        BY <4>8 DEF SourceOf
      <4> HIDE DEF upto
      <4>5. /\ tilesets' = upto \o (after \o file.tilesets)
            /\ after \o file.tilesets \in Tilesets
        <5>1. (upto \o after) \o file.tilesets = upto \o (after \o file.tilesets)
          <6> DEFINE T == [firstgid : Nat \ {0}, walls : SUBSET Nat]
          <6>1. \A x, y, z \in Seq(T) : (x \o y) \o z = x \o (y \o z)
            BY ConcatAssociative
          <6> HIDE DEF T
          <6> QED
            BY <2>2, <4>3, <6>1 DEF Tilesets, T
        <5>2. after \o file.tilesets \in Tilesets
          BY <2>2, ConcatProperties DEF Tilesets
        <5> QED
          BY <2>1, <4>4, <5>1, <5>2
      <4>6. m \in DOMAIN parsed' /\ parsed'[m] = parsed[m]
        BY <2>5
      <4>7. SourceOf(layers[j], parsed[m], k, before, after \o file.tilesets)'
        BY <4>1, <4>8, <4>5, <4>6 DEF SourceOf, upto
      <4> QED
        BY <4>5, <4>6, <4>7
    <3>2. CASE ~(j <= nl)
      <4>1. PICK k \in DOMAIN file.layers : layers'[j] = own[k]
        <5>1. j - nl \in DOMAIN file.layers /\ layers'[j] = own[j - nl]
          BY <2>3, <2>4, <2>6, <3>2
        <5> HIDE DEF own
        <5> QED
          BY <5>1
      <4>2. layers'[j] = Parse(file.layers[k], tilesets')
        BY <4>1 DEF Decode
      <4>3. tilesets' = tilesets' \o <<>> /\ <<>> \in Tilesets
        BY <2>2, ConcatEmptySeq DEF Tilesets
      <4>4. np + 1 \in DOMAIN parsed' /\ parsed'[np + 1] = file
        BY <2>5
      <4>5. PICK before \in Tilesets : before = tilesets
        BY <2>2
      <4>6. SourceOf(layers[j], parsed[np + 1], k, before, <<>>)'
        BY <2>1, <4>2, <4>3, <4>4, <4>5 DEF SourceOf
      <4>7. k \in DOMAIN parsed'[np + 1].layers
        BY <4>4
      <4> QED
        BY <4>3, <4>4, <4>6, <4>7
    <3> QED
      BY <3>1, <3>2
  <2>7. ASSUME NEW m \in DOMAIN parsed', NEW k \in DOMAIN parsed'[m].layers
        PROVE  \E j \in DOMAIN layers' : /\ layers'[j].width = parsed'[m].layers[k].width
                                         /\ layers'[j].height = parsed'[m].layers[k].height
    <3>1. CASE m \in DOMAIN parsed
      <4>1. parsed'[m] = parsed[m]
        BY <2>5, <3>1
      <4>2. PICK j \in DOMAIN layers : /\ layers[j].width = parsed[m].layers[k].width
                                       /\ layers[j].height = parsed[m].layers[k].height
        BY <2>7, <3>1, <4>1 DEF Sources
      <4>3. j \in DOMAIN layers' /\ layers'[j] = layers[j]
        BY <2>4
      <4> QED
        BY <4>1, <4>2, <4>3
    <3>2. CASE m \notin DOMAIN parsed
      <4>1. parsed'[m] = file
        BY <2>5, <2>7, <3>2
      <4>2. k \in DOMAIN own /\ own[k] = Parse(file.layers[k], tilesets')
        BY <2>3, <2>7, <4>1 DEF Decode
      <4>3. nl + k \in DOMAIN layers' /\ layers'[nl + k] = own[k]
        <5>1. k \in 1 .. Len(own)
          BY <2>4, <4>2
        <5> HIDE DEF own
        <5>2. PICK i \in 1 .. nl + Len(own) : i = nl + k /\ ~(i <= nl) /\ i - nl = k
          BY <2>4, <5>1
        <5>3. layers'[i] = own[i - nl] /\ i \in DOMAIN layers'
          BY <2>4, <5>2
        <5> QED
          BY <5>2, <5>3
      <4> QED
        BY <4>1, <4>2, <4>3 DEF Parse
    <3> QED
      BY <3>1, <3>2
  <2> QED
    BY <2>6, <2>7 DEF Sources, HasSource
<1> QED
  BY <1>1, <1>2 DEF Load, ParseFile

\* The layers have sources in every state of the scene.
LEMMA SourcesCorrect == SceneSpec => []Sources
<1>1. SceneInit => Sources
  BY DEF SceneInit, GameMapInit, Sources
<1>2. MapInv /\ MapInv' /\ Sources /\ [SceneNext]_sceneVars => Sources'
  <2>1. ASSUME Sources, UNCHANGED mapVars PROVE Sources'
    <3>1. layers' = layers /\ tilesets' = tilesets /\ parsed' = parsed
      BY <2>1 DEF mapVars
    <3>2. \A j : HasSource(layers[j])' <=> HasSource(layers[j])
      BY <3>1 DEF HasSource, SourceOf
    <3> QED
      BY <2>1, <3>1, <3>2 DEF Sources
  <2> QED
    BY <2>1, LoadKeepsSources DEF SceneNext, load_map, iteration, sceneVars
<1> QED
  BY <1>1, <1>2, MapInvCorrect, PTL DEF SceneSpec

\* A gid that is found to be a wall is one in the file it is from, whatever
\* tilesets were parsed before and after.
LEMMA WallIsFrom ==
  ASSUME NEW file \in Files, NEW before \in Tilesets, NEW after \in Tilesets,
         NEW gid \in 0 .. Word - 1,
         gid = 0 \/ \E j \in DOMAIN file.tilesets : file.tilesets[j].firstgid <= gid,
         HasWall(MapTile(gid, before \o file.tilesets), (before \o file.tilesets) \o after)
  PROVE  WallIn(file, gid)
<1> DEFINE own == file.tilesets
           sets == before \o own
           all == sets \o after
           nb == Len(before)
           n == nb + Len(own)
           masked == gid % (Word \div 8)
           Tileset == [firstgid : Nat \ {0}, walls : SUBSET Nat]
<1>1. own \in Tilesets /\ sets \in Tilesets
  BY FilesAssumption, ConcatProperties DEF Tilesets
<1>2. /\ nb \in Nat /\ Len(own) \in Nat /\ Len(sets) = n
      /\ DOMAIN sets = 1 .. n /\ DOMAIN own = 1 .. Len(own)
  <2>1. Len(sets) = n
    BY <1>1, ConcatProperties DEF Tilesets
  <2> HIDE DEF own, sets
  <2> QED
    BY <1>1, <2>1, LenProperties DEF Tilesets
<1>3. \A j \in 1 .. n : sets[j] = IF j <= nb THEN before[j] ELSE own[j - nb]
  BY <1>1, ConcatProperties DEF Tilesets
<1>4. \A j \in 1 .. n : all[j] = sets[j]
  <2> HIDE DEF sets
  <2>1. \A j \in 1 .. Len(sets) + Len(after) :
          all[j] = IF j <= Len(sets) THEN sets[j] ELSE after[j - Len(sets)]
    BY <1>1, ConcatProperties DEF Tilesets
  <2>2. Len(after) \in Nat
    BY LenProperties DEF Tilesets
  <2> QED
    BY <1>2, <2>1, <2>2
<1>5. /\ \A j \in 1 .. n : sets[j] \in Tileset
      /\ \A j \in 1 .. Len(own) : own[j] \in Tileset
  <2> HIDE DEF own, sets, n
  <2> QED
    BY <1>1, <1>2, ElementOfSeq DEF Tilesets
<1>6. Word \in Nat /\ Word \div 8 \in Nat \ {0} /\ Word = 8 * (Word \div 8) /\ Word \div 2 = 4 * (Word \div 8)
  BY WordAssumption
<1>7. masked \in 0 .. (Word \div 8) - 1 /\ masked <= gid
  <2>1. ASSUME NEW W \in Nat \ {0}, NEW x \in Nat PROVE x % W \in 0 .. W - 1 /\ x % W <= x
    BY <2>1
  <2>2. gid \in Nat
    BY <1>6
  <2> QED
    BY <1>6, <2>1, <2>2
<1> DEFINE may == {j \in DOMAIN sets : AsInt(gid) >= sets[j].firstgid}
           top == CHOOSE i \in may : \A j \in may : i >= j
           tile_ == MapTile(gid, sets)
<1>8. may # {} /\ FindTilesetIndex(gid, sets) = top - 1
  BY DEF HasWall, MapTile, FindTilesetIndex
<1>9. \E i \in may : \A j \in may : i >= j
  <2> DEFINE w == [j \in 1 .. n |-> IF j \in may THEN j ELSE 0]
  <2>1. n \in Nat \ {0} /\ may \subseteq 1 .. n /\ may # {}
    BY <1>2, <1>8
  <2> HIDE DEF may, n
  <2>2. w \in [1 .. n -> Nat]
    BY <2>1
  <2>3. PICK i \in 1 .. n : \A j \in 1 .. n : w[i] >= w[j]
    <3> HIDE DEF w
    <3> QED
      BY <2>1, <2>2, GreatestInList
  <2>4. \A j \in may : w[j] = j /\ j \in 1 .. n
    BY <2>1
  <2>5. i \in may
    <3>1. PICK j \in may : TRUE
      BY <2>1
    <3>2. w[i] >= j /\ j >= 1
      BY <2>3, <2>4, <3>1, <2>1
    <3> QED
      BY <2>1, <3>2
  <2> QED
    BY <2>3, <2>4, <2>5
<1>10. top \in may /\ \A j \in may : top >= j
  BY <1>9
<1>11. AsInt(gid) = gid /\ gid # 0 /\ gid < Word \div 2 /\ sets[top].firstgid \in 1 .. gid
  <2>1. sets[top].firstgid \in Nat \ {0} /\ AsInt(gid) >= sets[top].firstgid
    BY <1>2, <1>5, <1>10
  <2> HIDE DEF sets, top
  <2> QED
    BY <1>6, <2>1 DEF AsInt
<1> HIDE DEF top
<1>12. PICK k \in 1 .. Len(own) : top = nb + k
  <2>1. PICK j \in 1 .. Len(own) : own[j].firstgid <= gid
    BY <1>2, <1>11
  <2>2. nb + j \in 1 .. n /\ sets[nb + j] = own[j]
    <3>1. nb + j \in 1 .. n /\ ~(nb + j <= nb) /\ nb + j - nb = j
      BY <1>2
    <3> HIDE DEF sets, n
    <3> QED
      BY <1>3, <3>1
  <2>3. nb + j \in may
    BY <1>2, <1>11, <2>1, <2>2
  <2>4. top \in 1 .. n /\ top >= nb + j
    BY <1>2, <1>10, <2>3
  <2>5. top - nb \in 1 .. Len(own) /\ top = nb + (top - nb)
    BY <1>2, <2>4
  <2> QED
    BY <2>5
<1>13. sets[top] = own[k] /\ all[top] = own[k] /\ top \in 1 .. n
  <2>1. top \in 1 .. n /\ ~(top <= nb) /\ top - nb = k
    BY <1>2, <1>12
  <2> HIDE DEF sets, n
  <2> QED
    BY <1>3, <1>4, <2>1
<1> DEFINE first == own[k].firstgid
           d == masked - first
<1>14. first \in 1 .. gid /\ own[k].walls \in SUBSET Nat
  BY <1>5, <1>11, <1>13
<1>15. tile_ = [tilesetId |-> top - 1, id |-> d % Word]
  <2>1. top - 1 # -1 /\ top - 1 + 1 = top
    BY <1>2, <1>13
  <2> HIDE DEF sets, masked
  <2> QED
    BY <1>8, <1>13, <2>1 DEF MapTile, masked
<1>16. AsInt(d % Word) \in own[k].walls
  <2>1. top - 1 + 1 = top
    BY <1>2, <1>13
  <2>2. HasWall(tile_, all)
    OBVIOUS
  <2> HIDE DEF sets, all, tile_, d
  <2> QED
    BY <1>13, <1>15, <2>1, <2>2 DEF HasWall
<1>17. d \in own[k].walls
  <2> HIDE DEF masked, first
  <2>1. d \in Int /\ d > -(Word \div 2) /\ d < Word \div 8
    BY <1>6, <1>7, <1>11, <1>14
  <2> HIDE DEF d
  <2>2. CASE d >= 0
    <3>1. d % Word = d
      BY <1>6, <2>1, <2>2, RemainderOfWord
    <3>2. AsInt(d) = d
      BY <1>6, <2>1, <2>2 DEF AsInt
    <3> QED
      BY <1>16, <3>1, <3>2
  <2>3. CASE d < 0
    <3>1. d % Word = d + Word
      <4>1. d + Word \in 0 .. Word - 1 /\ Word \in Nat \ {0}
        BY <1>6, <2>1, <2>3
      <4> QED
        BY <2>1, <2>3, <4>1
    <3>2. AsInt(d + Word) = d
      BY <1>6, <2>1, <2>3 DEF AsInt
    <3>3. d \in Nat
      BY <1>14, <1>16, <3>1, <3>2
    <3> QED
      BY <2>3, <3>3
  <2> QED
    BY <2>1, <2>2, <2>3
<1>18. ASSUME NEW j \in DOMAIN own, j > k PROVE masked < own[j].firstgid
  <2>1. nb + j \in 1 .. n /\ sets[nb + j] = own[j] /\ nb + j > top
    <3>1. nb + j \in 1 .. n /\ ~(nb + j <= nb) /\ nb + j - nb = j /\ nb + j > top
      BY <1>2, <1>12, <1>18
    <3> HIDE DEF sets, n
    <3> QED
      BY <1>3, <3>1
  <2>2. nb + j \notin may
    <3>1. nb + j \in Nat /\ top \in Nat
      BY <1>2, <1>12
    <3> HIDE DEF may
    <3> QED
      BY <1>10, <2>1, <3>1
  <2>3. ~(gid >= own[j].firstgid) /\ own[j].firstgid \in Nat
    BY <1>2, <1>5, <1>11, <1>18, <2>1, <2>2
  <2> HIDE DEF masked, own
  <2> QED
    BY <1>6, <1>7, <2>3
<1> QED
  BY <1>2, <1>17, <1>18 DEF WallIn

\* Greatest is no less than any of the numbers of a list.
LEMMA GreatestIs ==
  ASSUME NEW n \in Nat \ {0}, NEW w \in [1 .. n -> Nat]
  PROVE  LET S == {w[i] : i \in 1 .. n}
         IN  Greatest(S) \in Nat /\ \A j \in 1 .. n : w[j] <= Greatest(S)
<1> DEFINE S == {w[i] : i \in 1 .. n}
<1>1. PICK i \in 1 .. n : \A j \in 1 .. n : w[i] >= w[j]
  BY GreatestInList
<1>2. w[i] \in S /\ \A m \in S : w[i] >= m
  BY <1>1
<1>3. S \subseteq Nat /\ S # {}
  BY <1>2
<1> HIDE DEF S
<1>4. Greatest(S) \in S /\ \A m \in S : Greatest(S) >= m
  BY <1>2, <1>3 DEF Greatest
<1>5. \A j \in 1 .. n : w[j] \in S
  BY DEF S
<1> QED
  BY <1>3, <1>4, <1>5 DEF S

\* The layers of a file have sizes and gids.
LEMMA LayerType ==
  ASSUME NEW file \in Files, NEW k \in DOMAIN file.layers
  PROVE  /\ file.layers[k].width \in Nat /\ file.layers[k].height \in Nat
         /\ \A c \in Cells(file.layers[k]) :
              LET gid == file.layers[k].gids[c]
              IN  /\ gid \in 0 .. Word - 1
                  /\ gid = 0 \/ \E j \in DOMAIN file.tilesets : file.tilesets[j].firstgid <= gid
<1> DEFINE layer == file.layers[k]
<1>1. /\ layer.width \in Nat /\ layer.height \in Nat
      /\ layer.gids \in [(0 .. layer.width - 1) \X (0 .. layer.height - 1) -> 0 .. Word - 1]
  BY FilesAssumption
<1>2. DOMAIN layer.gids = Cells(layer)
  BY <1>1 DEF Cells
<1>3. \A c \in Cells(layer) : layer.gids[c] \in 0 .. Word - 1
  BY <1>1 DEF Cells
<1>4. \A c \in DOMAIN layer.gids :
        layer.gids[c] = 0 \/ \E j \in DOMAIN file.tilesets : file.tilesets[j].firstgid <= layer.gids[c]
  BY GidsAssumption
<1> QED
  BY <1>1, <1>2, <1>3, <1>4

\* The map is no smaller than any layer of a file that was parsed.
LEMMA MapHoldsLayers ==
  ASSUME MapInv, Sources, ~has_error,
         NEW m \in DOMAIN parsed, NEW k \in DOMAIN parsed[m].layers,
         NEW c \in Cells(parsed[m].layers[k])
  PROVE  /\ c[1] \in 0 .. navigation_map_.width - 1
         /\ c[2] \in 0 .. navigation_map_.height - 1
<1> DEFINE n == Len(layers)
           widths == [j \in 1 .. n |-> layers[j].width]
           heights == [j \in 1 .. n |-> layers[j].height]
<1>1. layers \in Seq(Decoded) /\ n \in Nat /\ DOMAIN layers = 1 .. n
  BY LenProperties DEF MapInv
<1>2. PICK j \in 1 .. n : /\ layers[j].width = parsed[m].layers[k].width
                          /\ layers[j].height = parsed[m].layers[k].height
  BY <1>1 DEF Sources
<1>3. ASSUME NEW i \in 1 .. n PROVE layers[i].width \in Nat /\ layers[i].height \in Nat
  <2>1. PICK layer \in FileLayers, sets \in Tilesets : layers[i] = Parse(layer, sets)
    <3>1. layers[i] \in Decoded
      BY <1>1, <1>3
    <3> QED
      BY <3>1 DEF Decoded
  <2>2. PICK file \in Files : \E l \in DOMAIN file.layers : layer = file.layers[l]
    BY DEF FileLayers
  <2> QED
    BY <2>1, <2>2, LayerType DEF Parse
<1>4. widths \in [1 .. n -> Nat] /\ heights \in [1 .. n -> Nat] /\ n \in Nat \ {0}
  BY <1>1, <1>2, <1>3
<1>5. /\ navigation_map_.width = Greatest({widths[i] : i \in 1 .. n})
      /\ navigation_map_.height = Greatest({heights[i] : i \in 1 .. n})
  <2>1. parsed # <<>>
    OBVIOUS
  <2>2. /\ {layers[i].width : i \in DOMAIN layers} = {widths[i] : i \in 1 .. n}
        /\ {layers[i].height : i \in DOMAIN layers} = {heights[i] : i \in 1 .. n}
    BY <1>1
  <2>3. navigation_map_ = build_navigation_map(layers, tilesets)
    BY <2>1 DEF MapInv
  <2> HIDE DEF widths, heights, n
  <2> QED
    BY <2>2, <2>3 DEF build_navigation_map
<1>6. /\ widths[j] <= navigation_map_.width /\ navigation_map_.width \in Nat
      /\ heights[j] <= navigation_map_.height /\ navigation_map_.height \in Nat
  <2> HIDE DEF widths, heights, n
  <2> QED
    BY <1>2, <1>4, <1>5, GreatestIs
<1>7. widths[j] = layers[j].width /\ heights[j] = layers[j].height
  OBVIOUS
<1>8. /\ c[1] \in 0 .. layers[j].width - 1 /\ c[2] \in 0 .. layers[j].height - 1
      /\ layers[j].width \in Nat /\ layers[j].height \in Nat
  BY <1>2, <1>3 DEF Cells
<1> HIDE DEF widths, heights, n
<1> QED
  BY <1>6, <1>7, <1>8

\* No wall is invented: where an object may not go, a map that was loaded has a
\* wall or no map has a tile.
THEOREM WallsComeFromFiles == SceneSpec => []WallsAreFromFiles
<1>1. MapInv /\ Sources => WallsAreFromFiles
  <2> SUFFICES ASSUME MapInv, Sources, ~has_error,
                      NEW m \in DOMAIN parsed, NEW k \in DOMAIN parsed[m].layers,
                      NEW c \in Cells(parsed[m].layers[k]), IsWall(c)
               PROVE  \E w \in DOMAIN parsed : WallOf(parsed[w], c, 0 .. Word - 1)
    BY DEF WallsAreFromFiles
  <2>1. c \in navigation_map_.walls
    BY MapHoldsLayers DEF IsWall
  <2>2. navigation_map_ = build_navigation_map(layers, tilesets)
    BY DEF MapInv
  <2>3. PICK j \in DOMAIN layers : c \in Cells(layers[j]) /\ HasWall(layers[j].tiles[c], tilesets)
    BY <2>1, <2>2 DEF build_navigation_map
  <2>4. PICK w \in DOMAIN parsed : \E l \in DOMAIN parsed[w].layers :
          \E before, after \in Tilesets : SourceOf(layers[j], parsed[w], l, before, after)
    BY DEF Sources, HasSource
  <2>5. PICK l \in DOMAIN parsed[w].layers, before \in Tilesets, after \in Tilesets :
          SourceOf(layers[j], parsed[w], l, before, after)
    BY <2>4
  <2> DEFINE file == parsed[w]
             gid == file.layers[l].gids[c]
  <2>6. file \in Files
    BY DEF MapInv
  <2>7. c \in Cells(file.layers[l]) /\ layers[j].tiles[c] = MapTile(gid, before \o file.tilesets)
    BY <2>3, <2>5 DEF SourceOf, Parse, Cells
  <2>8. tilesets = (before \o file.tilesets) \o after
    BY <2>5 DEF SourceOf
  <2>9. /\ gid \in 0 .. Word - 1
        /\ gid = 0 \/ \E i \in DOMAIN file.tilesets : file.tilesets[i].firstgid <= gid
    BY <2>6, <2>7, LayerType
  <2>10. WallIn(file, gid)
    <3>1. HasWall(MapTile(gid, before \o file.tilesets), (before \o file.tilesets) \o after)
      BY <2>3, <2>7, <2>8
    <3> HIDE DEF gid
    <3> QED
      BY <2>6, <2>9, <3>1, WallIsFrom
  <2> QED
    BY <2>7, <2>9, <2>10 DEF WallOf
<1> QED
  BY <1>1, MapInvCorrect, SourcesCorrect, PTL
=============================================================================
