---------------------------- MODULE SourceOpening ----------------------------
(* From load() to the position playback begins at, native-player-engine.js.  *)
(* An HLS load chooses a variant, falls back through the variants while      *)
(* their playlists cannot be had, and reads the master playlist once more;   *)
(* a DASH load waits for its keys; both then wait until the media element    *)
(* opens their source, append the initialization segments and look for their *)
(* starting position.  A plain URL belongs to the element at once.  The next *)
(* load may come at any moment, and an HLS load does not look whether it was *)
(* superseded before it has opened its source.  What makes a loaded source   *)
(* ready is PlayerSession's.                                                 *)
EXTENDS Naturals, FiniteSets

CONSTANTS MaxLoads, Variants,
          Offers     \* the master playlists the site may answer with

VARIABLES latest,    \* _loadGeneration
          pending,   \* whether _pendingLoadStartTime is set
          loads,     \* what has become of each load
          element    \* the media element: whose source, and where it stands
openingVars == <<latest, pending, loads, element>>

Kinds == {"hls", "dash", "url"}

(* What a master playlist offers: the variants this browser can play, those  *)
(* with an audio group, whether it can play a rendition of that group, and   *)
(* the variants of the steered pathway (none: no steering, or no answer).    *)
Capabilities == SUBSET Variants
Pathways == SUBSET Variants
Masters == [capable : Capabilities, grouped : SUBSET Variants,
            sound : BOOLEAN, pathway : Pathways]
NoMaster == [capable |-> {}, grouped |-> {}, sound |-> FALSE, pathway |-> {}]

(* "dead": its provider is destroyed or quiesced; "ended": the player has    *)
(* recorded a terminal error for it.  "overtaken", "began" and "why" are     *)
(* history: superseded before the element got its source, the position it    *)
(* was loaded at, and why it failed.                                         *)
Fresh(kind, asked) ==
  [kind |-> kind, asked |-> asked, dead |-> FALSE, master |-> NoMaster,
   active |-> "none", bad |-> {}, tried |-> {}, attempts |-> 0,
   reloaded |-> FALSE, live |-> FALSE, mark |-> FALSE, buffers |-> {},
   resume |-> "none", protected |-> FALSE, licensing |-> FALSE,
   ended |-> FALSE, overtaken |-> FALSE,
   began |-> "none", why |-> "none",
   stage |-> IF kind = "url" THEN "loading" ELSE "manifest"]
Unloaded == [Fresh("url", FALSE) EXCEPT !.kind = "none", !.stage = "unloaded"]
Nothing == [src |-> 0, at |-> "zero"]
SourceOf(g) == [src |-> g, at |-> "zero"]

Init == /\ latest = 0 /\ pending = FALSE /\ element = Nothing
        /\ loads = [g \in 1..MaxLoads |-> Unloaded]

-----------------------------------------------------------------------------
(* Helpers.                                                                  *)

(* The variants left, those of the steered pathway if there are any.         *)
Steered(r, vs) == IF vs \cap r.master.pathway # {}
                  THEN vs \cap r.master.pathway ELSE vs
Candidates(r) == Steered(r, r.master.capable \ r.bad)

(* Which of them the estimated bandwidth or a restriction picks is open.     *)
Asks(r, v) == [r EXCEPT !.active = v, !.stage = "lists",
                        !.tried = @ \cup {v}, !.attempts = @ + 1]
Grouped(r) == r.active \in r.master.grouped
HasSound(r) == Grouped(r) /\ r.master.sound

Quiesced(r) == [r EXCEPT !.dead = TRUE]

(* load() of a superseded generation ends in an abort and changes nothing    *)
(* else; the current one is terminal, and its provider is quiesced.          *)
Fails(g, r, why) ==
  /\ loads' = [loads EXCEPT ![g] =
       IF g # latest THEN [r EXCEPT !.stage = "aborted"]
       ELSE [Quiesced(r) EXCEPT !.stage = "failed", !.ended = TRUE,
                                !.why = IF r.ended THEN @ ELSE why]]
  /\ pending' = (pending /\ g # latest)
  /\ UNCHANGED <<latest, element>>

Becomes(g, r) == /\ loads' = [loads EXCEPT ![g] = r]
                 /\ UNCHANGED <<latest, pending, element>>

(* The provider hands the element its own MediaSource and waits.             *)
Assigns(g, r) ==
  /\ loads' = [loads EXCEPT ![g] = [r EXCEPT !.stage = "waiting"]]
  /\ element' = SourceOf(g)
  /\ UNCHANGED <<latest, pending>>

(* load() goes on when the provider has loaded: unless it is superseded or   *)
(* in error, seekToStartTime sets the position once more.  Last comes what a *)
(* plain URL's own listener does after that, if it had to reload.            *)
Loaded(g, r, at) ==
  LET stands == IF r.resume # "none" THEN r.resume
                ELSE IF r.asked THEN "asked" ELSE at
      begins == g = latest /\ ~r.ended
  IN /\ element' = [element EXCEPT !.at = IF begins THEN stands ELSE at]
     /\ loads' = [loads EXCEPT ![g] =
          IF begins THEN [r EXCEPT !.stage = "loaded", !.began = stands]
          ELSE [r EXCEPT !.stage = IF g = latest THEN "failed" ELSE "aborted"]]

-----------------------------------------------------------------------------
(* Loads and the viewer.                                                     *)

(* What _destroyProvider leaves of the provider of the load before: one that *)
(* plays a plain URL rejects its load and empties the element.               *)
BeforeSource(r) == \/ r.stage \in {"lists", "reloading", "keys"}
                   \/ r.kind = "hls" /\ r.stage = "manifest"
Destroyed(r) ==
  [Quiesced(r) EXCEPT !.overtaken = BeforeSource(r),
            !.stage = IF r.stage = "loading" THEN "aborted" ELSE @]
Begins(r) ==
  /\ latest < MaxLoads /\ latest' = latest + 1 /\ pending' = r.asked
  /\ loads' = [g \in 1..MaxLoads |->
                 IF g = latest THEN Destroyed(loads[g])
                 ELSE IF g = latest + 1 THEN r ELSE loads[g]]
  /\ element' = IF r.kind = "url" THEN SourceOf(latest + 1)
                ELSE IF \/ r.kind = "none"
                        \/ latest > 0 /\ loads[latest].kind = "url"
                     THEN Nothing ELSE element

Load == \E kind \in Kinds, asked \in BOOLEAN : Begins(Fresh(kind, asked))
Unload == latest > 0 /\ Begins(Unloaded)

(* The viewer seeks, whatever the load is doing.                             *)
Seek == /\ element.src # 0 /\ element' = [element EXCEPT !.at = "sought"]
        /\ UNCHANGED <<latest, pending, loads>>

(* The loaded source has become ready to play.                               *)
Ready == /\ pending /\ loads[latest].stage = "loaded" /\ pending' = FALSE
         /\ UNCHANGED <<latest, loads, element>>

-----------------------------------------------------------------------------
(* HLS: choosing a variant and reading its playlists.                        *)

(* The choice the load begins and falls back with: a variant whose audio     *)
(* group this browser cannot play ends the load.                             *)
Chooses(g, r, none) ==
  IF Candidates(r) = {} THEN Fails(g, r, none)
  ELSE \E v \in Candidates(r) :
         IF v \in r.master.grouped /\ ~r.master.sound
         THEN Fails(g, r, "no-audio") ELSE Becomes(g, Asks(r, v))

(* The master playlist, probed and steered; or a media playlist, which is    *)
(* the only variant and applied at once; or no answer, or an unusable one.   *)
MasterArrives(g) ==
  LET r == loads[g]
  IN /\ r.kind = "hls" /\ r.stage = "manifest"
     /\ \/ Fails(g, r, "manifest")
        \/ Assigns(g, r)
        \/ \E m \in Offers :
             Chooses(g, [r EXCEPT !.master = m], "unsupported")

(* Fault: the last variant is not counted as an attempt. *)
Exhausted_OneMore(r) == r.attempts > Cardinality(Variants)

(* As many attempts as the master playlist has variants, playable or not.    *)
Exhausted(r) == r.attempts >= Cardinality(Variants)

(* The playlists could not be had, for a reason that may pass.               *)
ListsMissing(g) ==
  LET r == loads[g]
  IN /\ r.stage = "lists"
     /\ IF ~Exhausted(r)
        THEN Chooses(g, [r EXCEPT !.bad = @ \cup {r.active}], "lists")
        ELSE IF r.reloaded THEN Fails(g, r, "lists")
        ELSE Becomes(g, [r EXCEPT !.stage = "reloading", !.reloaded = TRUE])

(* They are applied, or are of a kind that cannot be played or retried.      *)
ListsArrive(g) == /\ loads[g].stage = "lists"
                  /\ \/ Assigns(g, loads[g])
                     \/ Fails(g, loads[g], "refused")

(* The master playlist read again; this choice does not ask for sound.       *)
MasterReloaded(g) ==
  /\ loads[g].stage = "reloading"
  /\ \/ Fails(g, loads[g], "manifest")
     \/ \E m \in Offers :
          LET r == [loads[g] EXCEPT !.master = m, !.bad = {}, !.tried = {},
                                    !.attempts = 0]
          IN IF Candidates(r) = {} THEN Fails(g, r, "lists")
             ELSE \E v \in Candidates(r) : Becomes(g, Asks(r, v))

-----------------------------------------------------------------------------
(* DASH: the manifest and the keys.                                          *)

(* Fault: a superseded load goes on with its manifest. *)
Outdated_Never(g) == FALSE

Outdated(g) == g # latest

(* What an MPD offers: video this browser can play, and audio.               *)
DashCapabilities == SUBSET Variants
Mpds == [capable : DashCapabilities, sound : BOOLEAN]
ChoosesVideo(g, r, mpd) ==
  IF mpd.capable = {} \/ ~mpd.sound THEN Fails(g, r, "unsupported")
  ELSE \E v \in mpd.capable :
         Becomes(g, [r EXCEPT !.stage = "keys", !.active = v])

(* The MPD, or none that can be parsed, or a JSON answer that names a plain  *)
(* or an HLS source instead.                                                 *)
ManifestArrives(g) ==
  LET r == loads[g]
  IN /\ r.kind = "dash" /\ r.stage = "manifest"
     /\ IF Outdated(g) THEN Becomes(g, [r EXCEPT !.stage = "aborted"])
        ELSE \/ Fails(g, r, "manifest")
             \/ Becomes(g, [r EXCEPT !.kind = "hls"])
             \/ /\ loads' = [loads EXCEPT ![g] =
                     [r EXCEPT !.kind = "url", !.stage = "loading"]]
                /\ element' = SourceOf(g) /\ UNCHANGED <<latest, pending>>
             \/ \E mpd \in Mpds : ChoosesVideo(g, r, mpd)

(* Protected media wait for the key system, unless it is not configured.     *)
EnsureDrmReady(g) ==
  /\ loads[g].stage = "keys"
  /\ \/ \E protected \in BOOLEAN :
          Assigns(g, [loads[g] EXCEPT !.protected = protected])
     \/ Fails(g, loads[g], "keys")

(* The element meets protected media: a session asks for the license.        *)
Encrypted(g) ==
  /\ loads[g].protected /\ loads[g].stage \in {"inits", "starting", "loaded"}
  /\ ~loads[g].dead /\ ~loads[g].licensing
  /\ Becomes(g, [loads[g] EXCEPT !.licensing = TRUE])
LicenseArrives(g) ==
  /\ loads[g].licensing
  /\ Becomes(g, [loads[g] EXCEPT !.licensing = FALSE, !.protected = FALSE])

(* No license: a terminal error of whatever load is the current one by now.  *)
(* Its provider is quiesced if it already has one, and one that has is not   *)
(* stopped by that until it comes to append.                                 *)
LicenseFails(g) ==
  LET cur == loads[latest]
      provided == cur.kind # "none" /\ ~(cur.kind = "dash"
                                        /\ cur.stage = "manifest")
      ends == [cur EXCEPT !.ended = TRUE, !.dead = @ \/ provided,
                          !.why = IF cur.ended THEN @ ELSE "license",
                          !.stage = IF @ \in {"loading", "loaded"}
                                    THEN "failed" ELSE @]
  IN /\ loads[g].licensing
     /\ loads' = [[loads EXCEPT ![latest] = ends] EXCEPT ![g].licensing = FALSE]
     /\ UNCHANGED <<latest, pending, element>>

-----------------------------------------------------------------------------
(* The source opens.                                                         *)

(* What each provider does about the position when its tracks are set up:    *)
(* a live source goes to its edge unless the viewer has already gone         *)
(* elsewhere; EXT-X-START counts if no position was asked for; a position    *)
(* asked for is set, and set again while the element reads back another.     *)
LiveStart(r, keeps) == IF ~r.live \/ (keeps /\ element.at = "sought")
                       THEN element.at ELSE "edge"
Starts(g, r) ==
  /\ UNCHANGED <<latest, pending>>
  /\ \E keeps \in BOOLEAN :
       LET at == IF r.mark /\ ~pending THEN "mark" ELSE LiveStart(r, keeps)
       IN \/ (~pending \/ r.dead) /\ Loaded(g, r, at)
          \/ /\ pending /\ ~r.dead
             /\ \/ Loaded(g, r, "asked")
                \/ /\ element' = [element EXCEPT !.at = "asked"]
                   /\ loads' = [loads EXCEPT ![g] =
                                  [r EXCEPT !.stage = "starting"]]

(* HLS: a track all of whose segments are gaps gets no SourceBuffer, video   *)
(* only if there is sound without gaps.  A rendition always has a playlist   *)
(* of its own (the parser keeps no other); "muxed": the sound comes out of   *)
(* the segments; "inits": some track has an initialization segment.          *)
Buffers(r, gaps, muxed) ==
  (IF gaps = {"video"} /\ HasSound(r) THEN {} ELSE {"video"})
  \cup (IF "audio" \notin gaps /\ (HasSound(r) \/ (muxed /\ ~Grouped(r)))
        THEN {"audio"} ELSE {})
HlsOpens(g, r) ==
  \E live, mark, muxed, inits \in BOOLEAN,
     gaps \in SUBSET {"video", "audio"} :
    LET opened == [r EXCEPT !.live = live, !.mark = mark,
                            !.buffers = Buffers(r, gaps, muxed)]
    IN /\ "audio" \in gaps => HasSound(r)
       /\ muxed => ~inits
       /\ IF inits THEN Becomes(g, [opened EXCEPT !.stage = "inits"])
          ELSE Starts(g, opened)
DashOpens(g, r) ==
  \E live \in BOOLEAN :
    Becomes(g, [r EXCEPT !.stage = "inits", !.live = live,
                         !.buffers = {"video", "audio"}])
SourceOpens(g) ==
  /\ loads[g].stage = "waiting" /\ element.src = g
  /\ \/ loads[g].kind = "hls" /\ HlsOpens(g, loads[g])
     \/ loads[g].kind = "dash" /\ DashOpens(g, loads[g])

(* The appends are guarded by the SourceBuffer they were meant for.          *)
InitsAppended(g) == /\ loads[g].stage = "inits" /\ element.src = g
                    /\ ~loads[g].dead /\ Starts(g, loads[g])
InitsFail(g) == loads[g].stage = "inits" /\ Fails(g, loads[g], "inits")

(* applyPendingLoadStartTime tries for two seconds; its end is the load's.   *)
ApplyStart(g) ==
  LET r == loads[g]
      at == IF r.dead THEN element.at ELSE "asked"
  IN /\ r.stage = "starting" /\ UNCHANGED <<latest, pending>>
     /\ \/ /\ element' = [element EXCEPT !.at = at] /\ UNCHANGED loads
        \/ Loaded(g, r, at)

-----------------------------------------------------------------------------
(* A plain URL: one reload after an error, which then goes back to where the *)
(* element, or else the player, last stood.                                  *)

UrlLoads(g) ==
  /\ loads[g].stage = "loading" /\ element.src = g
  /\ UNCHANGED <<latest, pending>>
  /\ Loaded(g, loads[g], IF pending THEN "asked" ELSE element.at)
UrlErrs(g) ==
  LET r == loads[g]
  IN /\ r.stage = "loading" /\ element.src = g
     /\ IF r.reloaded THEN Fails(g, r, "url")
        ELSE \E resume \in IF element.at = "sought" THEN {"sought"}
                           ELSE {"none", "resumed"} :
               /\ loads' = [loads EXCEPT ![g] =
                              [r EXCEPT !.reloaded = TRUE, !.resume = resume]]
               /\ element' = SourceOf(g) /\ UNCHANGED <<latest, pending>>

Next ==
  \/ Load \/ Unload \/ Seek \/ Ready
  \/ \E g \in 1..MaxLoads :
       \/ MasterArrives(g) \/ ListsMissing(g) \/ ListsArrive(g)
       \/ MasterReloaded(g) \/ ManifestArrives(g) \/ EnsureDrmReady(g)
       \/ Encrypted(g) \/ LicenseArrives(g) \/ LicenseFails(g)
       \/ SourceOpens(g) \/ InitsAppended(g) \/ InitsFail(g) \/ ApplyStart(g)
       \/ UrlLoads(g) \/ UrlErrs(g)
Spec == Init /\ [][Next]_openingVars

-----------------------------------------------------------------------------
Stages == {"unloaded", "manifest", "lists", "reloading", "keys", "waiting",
           "inits", "starting", "loading", "loaded", "failed", "aborted"}
Positions == {"zero", "edge", "mark", "asked", "sought", "resumed"}
TypeOK ==
  /\ Offers \subseteq Masters /\ latest \in 0..MaxLoads /\ pending \in BOOLEAN
  /\ element \in [src : 0..latest, at : Positions]
  /\ \A g \in 1..MaxLoads :
       /\ loads[g].stage \in Stages
       /\ loads[g].began \in Positions \cup {"none"}
       /\ loads[g].bad \subseteq loads[g].tried

(* A load fails for want of its playlists only when each variant this        *)
(* browser can play was asked since the master playlist was last read, and   *)
(* has then read it a second time, unless there are variants it cannot play  *)
(* (which count as attempts all the same): _loadStartupMediaPlaylists.       *)
FailsWhenAllAsked ==
  \A g \in 1..MaxLoads :
    loads[g].stage = "failed" /\ loads[g].why = "lists" =>
      /\ loads[g].master.capable \subseteq loads[g].tried
      /\ loads[g].reloaded \/ loads[g].master.capable # Variants

(* A load begins at the position asked for; without one at the mark of the   *)
(* playlist; without one at the live edge or the beginning, or where the     *)
(* viewer went meanwhile.  Only a plain URL that had to reload goes back to  *)
(* where it stood instead: applyPendingLoadStartTime, _open, _load.          *)
Promised(r) ==
  (IF r.asked THEN {"asked"} ELSE IF r.mark THEN {"mark"}
   ELSE {"sought", IF r.live THEN "edge" ELSE "zero"})
  \cup (IF r.resume # "none" THEN {"sought", "resumed"} ELSE {})
BeginsWherePromised ==
  \A g \in 1..MaxLoads :
    loads[g].stage = "loaded" => loads[g].began \in Promised(loads[g])

(* From the moment the element is handed its source, it keeps the source of  *)
(* the current load, unless a load that was superseded before it had its     *)
(* own took it: load().                                                      *)
HasSource == {"waiting", "inits", "starting", "loading", "loaded"}
ElementIsOfTheLoad ==
  latest > 0 /\ loads[latest].stage \in HasSource =>
    \/ element.src = latest
    \/ element.src # 0 /\ loads[element.src].overtaken

(* What an HLS load opens can be seen and heard: a variant with an audio     *)
(* group opens with its sound to come, unless the master playlist was read   *)
(* again; and some track gets a SourceBuffer, also when all of a track, or   *)
(* of both, is declared a gap: _loadStartupMediaPlaylists, _open.            *)
OpensWithTracks ==
  \A g \in 1..MaxLoads :
    LET r == loads[g]
    IN r.kind = "hls" /\ r.stage \in {"inits", "starting", "loaded"} =>
         /\ Grouped(r) => HasSound(r) \/ r.reloaded
         /\ r.buffers # {}

SourceSafe == /\ TypeOK /\ FailsWhenAllAsked /\ BeginsWherePromised
              /\ ElementIsOfTheLoad /\ OpensWithTracks
=============================================================================
