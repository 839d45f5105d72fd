---------------------------- MODULE Client_proofs ----------------------------
(***************************************************************************)
(* Proofs about the attempt page and its panes, for any number of moves,   *)
(* visits, lost answers, files, edits and hints.                           *)
(***************************************************************************)
EXTENDS Client, FiniteSetTheorems, TLAPS

-----------------------------------------------------------------------------
(* The inductive invariants *)

\* The panes that are on the screen have been mounted.
PageInv == mounts \in Nat /\ (Active(view) => mounts > 0)

\* One chain per mount, and only that of the pane on the screen has a socket.
TerminalInv ==
    /\ \A c \in chains : c = [gen |-> c.gen, at |-> c.at] /\ c.gen \in Nat /\ c.gen <= mounts
    /\ \A c, d \in chains : c.gen = d.gen => c = d
    /\ \A c \in chains : c.at \in Sockets => Current(c)
    /\ pane # "terminal" => chains = {}

Contents == [path : Paths, gen : Nat, n : Nat]
Maybe == {None} \cup Contents
EdRows == [sel : Paths \cup {"none"}, mounted : Maybe, dirty : BOOLEAN, pending : Maybe, raced : BOOLEAN]
ReadRows == [path : Paths, content : Maybe]
WriteRows == [path : Paths, content : Contents, at : {"sent", "done", "failed"}, gen : Nat]

\* A pane has at most one write under way, of what was typed in that pane for
\* that file; an editor that is not on the screen is blank.
EditorTyped ==
    /\ files \in [Paths -> Contents]
    /\ ed \in EdRows /\ writes \subseteq WriteRows /\ edits \in Nat
    /\ \A p \in Paths : files[p].path = p
    /\ \A w \in writes : w.content.path = w.path /\ w.content.gen = w.gen /\ w.gen <= mounts /\ w.gen > 0
    /\ \A v, w \in writes : v.gen = w.gen => v = w
    /\ ed.pending # None => ed.sel \in Paths /\ ed.pending.path = ed.sel /\ ed.pending.gen = mounts
    /\ ~Active(view) => ed = Blank

\* While this pane's write is under way the editor is dirty and shows what is
\* being written, unless something was typed since; a write that is done is in
\* the file until somebody else writes.
EditorSound ==
    /\ \A w \in writes : w.gen = mounts =>
         /\ ed.pending # None => ed.dirty /\ (ed.raced \/ ed.pending = w.content)
         /\ w.at = "done" => files[w.path] = w.content \/ files[w.path].gen # mounts
    /\ ed.pending # None /\ ~ed.dirty =>
         ed.raced \/ files[ed.sel] = ed.pending \/ files[ed.sel].gen # mounts

\* What was read, cached, mounted or written is a content that the file has had.
EditorHeld ==
    /\ held \in [Paths -> SUBSET Contents] /\ cache \in [Paths -> Maybe] /\ reads \subseteq ReadRows
    /\ \A p \in Paths : files[p] \in held[p] /\ (cache[p] = None \/ cache[p] \in held[p])
    /\ \A r \in reads : r.content = None \/ r.content \in held[r.path]
    /\ \A w \in writes : w.at = "done" => w.content \in held[w.path]
    /\ ed.mounted # None => ed.sel \in Paths /\ ed.mounted \in held[ed.sel]
    /\ ed.pending # None /\ ~ed.dirty => ed.raced \/ ed.pending \in held[ed.sel]

EditorApart == pane # "editor" => ed = Blank /\ writes = {}

EditorInv == EditorTyped /\ EditorSound /\ EditorHeld /\ EditorApart

\* A check that passes on the screen, on its way or in a silent submission
\* has passed.
SubmitInv ==
    /\ check = "passing" => proved
    /\ \A c \in calls : (c.at = "passing" \/ c.silent) => proved
    /\ proved \in BOOLEAN

HintRows == [revealed : Nat, cache : [Keys -> Int], asked : SUBSET [key : Keys, at : Int],
             reveal : {"none", "sent", "ok", "error"}, agreed : Int, late : Nat]

\* While nothing disturbs the panel it is level with the server: a preview
\* under way is that of the key shown, so what is cached under a key is the
\* price of the next level.
LevelPanel ==
    /\ mounts <= 1 /\ hint.late = 0
    /\ mounts = 0 => level = 0 /\ hint = Panel([k \in Keys |-> -1], {}, 0)
    /\ hint.revealed = (IF hint.reveal = "ok" THEN level - 1 ELSE level)
    /\ hint.reveal # "error"
    /\ \A k \in Keys : hint.cache[k] > 0 => hint.cache[k] = k + 1 /\ k < Ladder
    /\ hint.asked # {} => hint.reveal = "none" /\ hint.cache[hint.revealed] = -1
    /\ \A q \in hint.asked : q.key = hint.revealed /\ q.at \in {-1, IF level < Ladder THEN level + 1 ELSE 0}
    /\ \A q, r \in hint.asked : q = r
    /\ hint.reveal = "sent" => hint.agreed = level + 1 /\ level < Ladder

\* The panel never shows more hints than the server has revealed.
Behind == hint.revealed + (IF hint.reveal = "ok" THEN 1 ELSE 0) <= level

HintInv ==
    /\ hint \in HintRows /\ level \in Keys /\ clean \in BOOLEAN /\ Behind
    /\ pane # "hints" => charged = {}
    /\ clean => \A c \in charged : c.level = c.agreed
    /\ pane = "hints" /\ clean => LevelPanel

-----------------------------------------------------------------------------
(* The page *)

\* What the page does to its panes: the workspace is mounted anew, or stays,
\* or goes.
LEMMA PageMoves ==
  ASSUME PageInv, PageNext
  PROVE  /\ mounts' = mounts \/ mounts' = mounts + 1
         /\ Active(view') /\ ~Active(view) => mounts' # mounts
         /\ PageInv'
<1>1. CASE Poll \/ Focus \/ Serve \/ FetchFails \/ Reload \/ Elsewhere
  <2>1. mounts' = mounts /\ (view' = view \/ ~Active(view'))
    BY <1>1 DEF Poll, Focus, Serve, FetchFails, Reload, Elsewhere, Active
  <2>2. QED BY <2>1 DEF PageInv
<1>2. CASE Arrive
  <2>1. view' = fetch /\ mounts' = IF ~Active(view) /\ Active(fetch) THEN mounts + 1 ELSE mounts
    BY <1>2 DEF Arrive
  <2>2. QED BY <2>1 DEF PageInv, Active
<1>3. CASE Navigate
  <2>1. view' = view /\ mounts' = IF Active(view) THEN mounts + 1 ELSE mounts
    BY <1>3 DEF Navigate
  <2>2. QED BY <2>1 DEF PageInv, Active
<1>4. QED BY <1>1, <1>2, <1>3 DEF PageNext

\* The steps of the parts leave the page where it is.
LEMMA OtherSteps ==
  ASSUME [Next]_vars
  PROVE  \/ PageNext /\ Follows
         \/ UNCHANGED <<view, mounts, pane>>
<1>1. ASSUME NEW c, TerminalStep(c) PROVE UNCHANGED <<view, mounts>>
  BY <1>1 DEF TerminalStep, Connect, connectTold, SocketOpens, SocketDrops, scheduleReconnect, Reconnect, pageVars
<1>2. ButtonsNext => UNCHANGED <<view, mounts>>
  BY DEF ButtonsNext, Start, Check, handleSubmit, onDismiss, Send, Handle, Score, Answer, useAttemptAction,
         checkMutation, Reject, ReplyLost
<1>3. EditorNext => UNCHANGED <<view, mounts>>
  BY DEF EditorNext, selectFile, ShellWrites, onChange, save, refetch, read, readArrives, write, saved, pageVars
<1>4. HintNext => UNCHANGED <<view, mounts>>
  BY DEF HintNext, previewHint, previewArrives, Reveal, revealHint, revealLate, revealMutation, RevealLost,
         RevealedElsewhere, pageVars
<1>5. QED BY <1>1, <1>2, <1>3, <1>4 DEF Next, vars, pageVars, TerminalActs

LEMMA PageInvNext ==
  ASSUME PageInv, [Next]_vars
  PROVE  PageInv'
<1>1. CASE PageNext
  BY <1>1, PageMoves
<1>2. CASE UNCHANGED <<view, mounts, pane>>
  BY <1>2 DEF PageInv
<1>3. QED BY <1>1, <1>2, OtherSteps

-----------------------------------------------------------------------------
(* The terminal *)

LEMMA ChainSteps ==
  ASSUME TerminalInv, UNCHANGED <<view, mounts, pane>>, pane = "terminal", NEW c \in chains, NEW at,
         Step(c, at) \/ Ends(c), at \in Sockets => Current(c) \/ Ends(c)
  PROVE  TerminalInv'
<1>1. CASE Ends(c)
  BY <1>1 DEF Ends, TerminalInv, Current
<1>2. CASE Step(c, at) /\ ~Ends(c)
  <2> DEFINE d == [c EXCEPT !.at = at]
  <2>1. d = [gen |-> c.gen, at |-> at] /\ d.gen = c.gen /\ d.at = at
    BY DEF TerminalInv
  <2>2. chains' = (chains \ {c}) \cup {d}
    BY <1>2 DEF Step
  <2> HIDE DEF d
  <2>3. \A b \in chains' : b = d \/ (b \in chains /\ b # c)
    BY <2>2
  <2>4. \A b \in chains' : b = [gen |-> b.gen, at |-> b.at] /\ b.gen \in Nat /\ b.gen <= mounts'
    BY <2>1, <2>3 DEF TerminalInv
  <2>5. \A a, b \in chains' : a.gen = b.gen => a = b
    BY <2>1, <2>3 DEF TerminalInv
  <2>6. \A b \in chains' : b.at \in Sockets => Current(b)'
    BY <1>2, <2>1, <2>3 DEF TerminalInv, Current
  <2>7. QED BY <2>4, <2>5, <2>6 DEF TerminalInv
<1>3. QED BY <1>1, <1>2

LEMMA TerminalNext ==
  ASSUME PageInv, TerminalInv, [Next]_vars
  PROVE  TerminalInv'
<1>1. CASE PageNext /\ Follows
  <2>1. UNCHANGED pane /\ mounts \in Nat /\ (mounts' = mounts \/ mounts' = mounts + 1)
    BY <1>1, PageMoves DEF Follows, PageInv
  <2>2. CASE pane # "terminal"
    BY <1>1, <2>1, <2>2 DEF Follows, TerminalInv
  <2>3. CASE pane = "terminal"
    <3>1. \A g \in (mounts + 1) .. mounts' : g = mounts' /\ g = mounts + 1
      BY <2>1
    <3>2. chains' = (IF mounts' # mounts \/ ~Active(view') THEN CloseAll ELSE chains)
                    \cup {[gen |-> g, at |-> "asking"] : g \in (mounts + 1) .. mounts'}
      BY <1>1, <2>3 DEF Follows, TerminalFollows
    <3>3. \A b \in chains' : \/ b \in chains /\ (b.at \in Sockets => mounts' = mounts /\ Active(view'))
                             \/ b = [gen |-> mounts + 1, at |-> "asking"] /\ mounts' = mounts + 1
      BY <3>1, <3>2 DEF CloseAll
    <3>4. \A b \in chains' : b = [gen |-> b.gen, at |-> b.at] /\ b.gen \in Nat /\ b.gen <= mounts'
      BY <2>1, <3>3 DEF TerminalInv
    <3>5. \A a, b \in chains' : a.gen = b.gen => a = b
      BY <2>1, <3>3 DEF TerminalInv
    <3>6. \A b \in chains' : b.at \in Sockets => Current(b)'
      BY <3>3 DEF TerminalInv, Current, Sockets
    <3>7. QED BY <2>1, <2>3, <3>4, <3>5, <3>6 DEF TerminalInv
  <2>4. QED BY <2>2, <2>3
<1>2. ASSUME NEW c \in chains, TerminalActs(c) PROVE TerminalInv'
  <2>1. UNCHANGED <<view, mounts, pane>> /\ pane = "terminal" /\ TerminalStep(c)
    BY <1>2, OtherSteps
       DEF TerminalActs, TerminalStep, Connect, connectTold, SocketOpens, SocketDrops, scheduleReconnect,
           Reconnect, pageVars
  <2>2. \E at : /\ Step(c, at) \/ Ends(c)
                /\ at \in Sockets => Current(c) \/ Ends(c)
    BY <2>1
       DEF TerminalStep, Connect, connectTold, SocketOpens, SocketDrops, scheduleReconnect, Reconnect,
           IfCurrent, Sockets, TerminalInv
  <2>3. QED BY <2>1, <2>2, ChainSteps
<1>3. CASE UNCHANGED <<view, mounts, pane, chains>>
  BY <1>3 DEF TerminalInv, Current
<1>4. QED
  <2>1. \/ PageNext /\ Follows
        \/ \E c \in chains : TerminalActs(c)
        \/ UNCHANGED <<chains, pane>>
    BY DEF Next, vars
  <2>2. CASE \E c \in chains : TerminalActs(c)
    BY <1>2, <2>2
  <2>3. CASE UNCHANGED <<chains, pane>>
    BY <1>1, <1>3, <2>3, OtherSteps
  <2>4. QED BY <1>1, <2>1, <2>2, <2>3

\* WorkspaceTerminal.tsx, connect and the effect's cleanup: for any number of
\* mounts, lost answers and environments taken away, the browser has at most one
\* terminal socket and it belongs to the pane on the screen.
THEOREM TerminalIsOne == Spec => []OneTerminal
<1>1. Init => PageInv /\ TerminalInv
  BY DEF Init, PageInit, TerminalInit, PageInv, TerminalInv, Active
<1>2. PageInv /\ TerminalInv /\ [Next]_vars => (PageInv /\ TerminalInv)'
  BY PageInvNext, TerminalNext
<1>3. TerminalInv => OneTerminal
  <2>1. SUFFICES ASSUME TerminalInv PROVE OneTerminal
    OBVIOUS
  <2> DEFINE live == {c \in chains : c.at \in Sockets}
  <2>2. \A c, d \in live : Current(c) /\ c = d
    BY <2>1 DEF TerminalInv, Current
  <2>3. Cardinality(live) <= 1
    <3>1. CASE live = {}
      BY <3>1, FS_EmptySet
    <3>2. ASSUME NEW c \in live PROVE Cardinality(live) <= 1
      <4>1. live = {c}
        BY <2>2, <3>2
      <4>2. Cardinality({c}) = 1
        BY FS_Singleton
      <4> HIDE DEF live
      <4>3. QED BY <4>1, <4>2
    <3>3. QED BY <3>1, <3>2
  <2>4. QED BY <2>2, <2>3 DEF OneTerminal
<1>4. QED BY <1>1, <1>2, <1>3, PTL DEF Spec

-----------------------------------------------------------------------------
(* The editor *)

LEMMA BlankIs ==
  Blank \in EdRows /\ Blank.pending = None /\ Blank.mounted = None /\ Blank.sel = "none" /\ Blank.dirty = FALSE
BY DEF Blank, EdRows, Maybe

LEMMA TypedIs ==
  \A p \in Paths, g, n \in Nat :
    /\ Typed(p, g, n) \in Contents /\ Typed(p, g, n) # None
    /\ Typed(p, g, n).path = p /\ Typed(p, g, n).gen = g
BY DEF Typed, Contents, None

LEMMA EditorOnPage ==
  ASSUME PageInv, EditorInv, PageNext, Follows
  PROVE  EditorInv'
<1>1. /\ UNCHANGED <<files, held, writes, edits, pane>>
      /\ ed' = ed \/ ed' = Blank
      /\ cache' = cache \/ cache' = [p \in Paths |-> None]
      /\ reads' = reads \/ reads' = {}
      /\ pane = "editor" => ed' = IF mounts' # mounts \/ ~Active(view') THEN Blank ELSE ed
      /\ pane # "editor" => ed' = ed
  BY DEF Follows, EditorFollows, editorVars
<1>2. mounts \in Nat /\ (mounts' = mounts \/ mounts' = mounts + 1)
  BY PageMoves DEF PageInv
<1>3. ed' = Blank \/ (ed' = ed /\ mounts' = mounts /\ Active(view'))
  BY <1>1, <1>2 DEF EditorInv, EditorApart
<1>4. EditorTyped'
  <2>1. \A w \in writes : w.gen <= mounts'
    BY <1>2 DEF EditorInv, EditorTyped, WriteRows
  <2>2. CASE ed' = Blank
    BY <1>1, <2>1, <2>2, BlankIs DEF EditorInv, EditorTyped
  <2>3. CASE ed' = ed /\ mounts' = mounts /\ Active(view')
    BY <1>1, <2>1, <2>3 DEF EditorInv, EditorTyped
  <2>4. QED BY <1>3, <2>2, <2>3
<1>5. EditorSound'
  <2>1. CASE mounts' = mounts
    BY <1>1, <1>3, <2>1, BlankIs DEF EditorInv, EditorSound
  <2>2. CASE mounts' # mounts
    <3>1. \A w \in writes : w.gen # mounts'
      BY <1>2, <2>2 DEF EditorInv, EditorTyped, WriteRows
    <3>2. QED BY <1>1, <1>3, <2>2, <3>1, BlankIs DEF EditorSound
  <2>3. QED BY <2>1, <2>2
<1>6. EditorApart'
  BY <1>1 DEF EditorInv, EditorApart
<1>7. EditorHeld'
  <2>1. /\ cache' \in [Paths -> Maybe] /\ reads' \subseteq reads
        /\ \A p \in Paths : cache'[p] = None \/ cache'[p] = cache[p]
    BY <1>1 DEF EditorInv, EditorHeld, Maybe
  <2>2. CASE ed' = Blank
    BY <1>1, <2>1, <2>2, BlankIs DEF EditorInv, EditorHeld
  <2>3. CASE ed' = ed
    BY <1>1, <2>1, <2>3 DEF EditorInv, EditorHeld
  <2>4. QED BY <1>1, <2>2, <2>3
<1>8. QED BY <1>4, <1>5, <1>6, <1>7 DEF EditorInv

\* A read of the file on the screen.
LEMMA AskingIs ==
  ASSUME EditorHeld, NEW p \in Paths
  PROVE  /\ Asked(p) \in ReadRows /\ Asked(p).content = None
         /\ \A r \in Asking(p) : r \in reads \/ r = Asked(p)
BY DEF Asked, Asking, ReadRows, Maybe

\* A content more that a file has had.
LEMMA HeldGrows ==
  ASSUME EditorHeld, files \in [Paths -> Contents], NEW p \in Paths, NEW c \in Contents,
         files' = [files EXCEPT ![p] = c], held' = [held EXCEPT ![p] = @ \cup {c}],
         ed.pending # None => ed.sel \in Paths, UNCHANGED <<ed, cache, reads>>,
         \A u \in writes : u.path \in Paths,
         \A u \in writes' : u.at = "done" => u \in writes \/ (u.path = p /\ u.content = c)
  PROVE  EditorHeld'
<1>1. /\ held' \in [Paths -> SUBSET Contents] /\ c \in held'[p]
      /\ \A q \in Paths : held[q] \subseteq held'[q]
  BY DEF EditorHeld
<1>2. \A q \in Paths : files'[q] \in held'[q]
  BY <1>1 DEF EditorHeld
<1>3. \A r \in reads : r.path \in Paths
  BY DEF EditorHeld, ReadRows
<1>4. \A u \in writes' : u.at = "done" => u.content \in held'[u.path]
  BY <1>1 DEF EditorHeld
<1>5. QED BY <1>1, <1>2, <1>3, <1>4 DEF EditorHeld

LEMMA EditorSteps ==
  ASSUME PageInv, EditorInv, EditorNext, pane = "editor", UNCHANGED pane
  PROVE  EditorInv'
<1> USE DEF EditorInv
<1>0. /\ UNCHANGED <<view, mounts>> /\ mounts \in Nat /\ (Active(view) => mounts > 0)
      /\ EditorApart'
  BY DEF EditorNext, selectFile, ShellWrites, onChange, save, refetch, read, readArrives, write, saved, pageVars,
         PageInv, EditorApart
<1>1. ASSUME NEW p \in Paths, selectFile(p) PROVE EditorInv'
  <2>0. PICK c \in {cache[p], None} : ed' = [Blank EXCEPT !.sel = p, !.mounted = c] /\ cache' = [cache EXCEPT ![p] = c]
    BY <1>1 DEF selectFile
  <2>1. /\ ed' \in EdRows /\ ed'.pending = None /\ ed'.sel = p /\ ed'.mounted = c /\ Active(view)
        /\ UNCHANGED <<files, held, writes, edits>> /\ reads' = Asking(p)
    <3>1. c \in Maybe
      BY DEF EditorHeld, Maybe
    <3>2. PICK e : e = [Blank EXCEPT !.sel = p, !.mounted = c]
      OBVIOUS
    <3>3. e \in EdRows /\ e.pending = None /\ e.sel = p /\ e.mounted = c
      BY <3>1, <3>2 DEF Blank, EdRows, Maybe
    <3>4. ed' = e
      BY <2>0, <3>2
    <3>5. QED BY <1>1, <3>3, <3>4 DEF selectFile
  <2>2. EditorTyped'
    BY <1>0, <2>1 DEF EditorTyped
  <2>3. EditorSound'
    BY <1>0, <2>1 DEF EditorSound
  <2>4. EditorHeld'
    <3>1. /\ cache' \in [Paths -> Maybe]
          /\ \A q \in Paths : cache'[q] = None \/ cache'[q] = cache[q]
      BY <2>0 DEF EditorHeld, Maybe
    <3>2. c = None \/ c \in held[p]
      BY DEF EditorHeld
    <3>3. reads' \subseteq ReadRows /\ \A r \in reads' : r \in reads \/ r.content = None
      BY <2>1, AskingIs DEF EditorHeld
    <3>4. QED BY <2>1, <3>1, <3>2, <3>3 DEF EditorHeld
  <2>5. QED BY <1>0, <2>2, <2>3, <2>4
<1>2. ASSUME NEW p \in Paths, ShellWrites(p) PROVE EditorInv'
  <2>1. /\ edits' \in Nat /\ files' = [files EXCEPT ![p] = Typed(p, 0, edits')]
        /\ held' = [held EXCEPT ![p] = @ \cup {files'[p]}]
        /\ UNCHANGED <<ed, cache, reads, writes>>
    BY <1>2 DEF ShellWrites, EditorTyped
  <2>2. /\ files' \in [Paths -> Contents] /\ files'[p].path = p /\ files'[p].gen = 0
        /\ \A q \in Paths : q # p => files'[q] = files[q]
    BY <2>1, TypedIs DEF EditorTyped
  <2>3. EditorTyped'
    BY <1>0, <2>1, <2>2 DEF EditorTyped
  <2>4. \A w \in writes : w.path \in Paths /\ w.gen # 0
    BY DEF EditorTyped, WriteRows
  <2>5. EditorSound'
    <3>1. \A w \in writes : w.gen = mounts /\ w.at = "done" => files'[w.path] = w.content \/ files'[w.path].gen # mounts
      BY <2>2, <2>4 DEF EditorSound
    <3>2. ed.pending # None => ed.sel \in Paths /\ mounts # 0
      BY <1>0, BlankIs DEF EditorTyped
    <3>3. QED BY <1>0, <2>1, <2>2, <3>1, <3>2 DEF EditorSound
  <2>6. EditorHeld'
    <3>1. PICK c \in Contents : c = files'[p]
      BY <2>2
    <3>2. files' = [files EXCEPT ![p] = c] /\ held' = [held EXCEPT ![p] = @ \cup {c}]
      BY <2>1, <2>2, <3>1 DEF EditorTyped
    <3>3. files \in [Paths -> Contents] /\ (ed.pending # None => ed.sel \in Paths)
      BY DEF EditorTyped
    <3>4. QED BY <2>1, <2>4, <3>2, <3>3, HeldGrows
  <2>7. QED BY <1>0, <2>3, <2>5, <2>6
<1>3. CASE onChange
  <2> DEFINE t == Typed(ed.sel, mounts, edits')
             e == [ed EXCEPT !.pending = t, !.dirty = TRUE, !.raced = @ \/ Saving]
  <2>1. /\ ed.sel \in Paths /\ edits' \in Nat /\ UNCHANGED <<files, held, cache, reads, writes>> /\ Active(view)
    BY <1>3 DEF onChange, EditorTyped, EdRows
  <2>2. ed' = e
    BY <1>3 DEF onChange
  <2>3. t \in Contents /\ t.path = ed.sel /\ t.gen = mounts /\ t # None
    BY <1>0, <2>1, TypedIs
  <2> HIDE DEF t
  <2>4. e \in EdRows
    BY <2>1, <2>3, Zenon DEF EditorTyped, EdRows, Maybe
  <2>5. /\ e.sel = ed.sel /\ e.pending = t /\ e.dirty = TRUE /\ e.raced = (ed.raced \/ Saving)
        /\ e.mounted = ed.mounted
    BY DEF EditorTyped, EdRows
  <2> HIDE DEF e
  <2>6. EditorTyped'
    BY <1>0, <2>1, <2>2, <2>3, <2>4, <2>5 DEF EditorTyped
  <2>7. EditorSound'
    <3>1. \A w \in writes : w.gen = mounts => e.raced
      BY <2>5 DEF Saving
    <3>2. QED BY <1>0, <2>1, <2>2, <2>5, <3>1 DEF EditorSound
  <2>8. EditorHeld'
    BY <2>1, <2>2, <2>5 DEF EditorHeld
  <2>9. QED BY <1>0, <2>6, <2>7, <2>8
<1>4. CASE save
  <2> DEFINE v == [path |-> ed.sel, content |-> ed.pending, at |-> "sent", gen |-> mounts]
             e == [ed EXCEPT !.raced = FALSE]
  <2>1. /\ Active(view) /\ ed.dirty /\ ~Saving /\ ed.pending # None
        /\ UNCHANGED <<files, held, cache, reads, edits>> /\ writes' = writes \cup {v} /\ ed' = e
    BY <1>4 DEF save
  <2>2. ed.sel \in Paths /\ ed.pending \in Contents /\ ed.pending.path = ed.sel /\ ed.pending.gen = mounts
    BY <2>1 DEF EditorTyped, EdRows, Maybe
  <2>3. v \in WriteRows /\ v.content = ed.pending /\ v.path = ed.sel /\ v.gen = mounts /\ v.at = "sent"
    BY <1>0, <2>2 DEF WriteRows
  <2>4. e \in EdRows
    BY Zenon DEF EditorTyped, EdRows
  <2>5. e.sel = ed.sel /\ e.pending = ed.pending /\ e.dirty = ed.dirty /\ e.mounted = ed.mounted
    BY DEF EditorTyped, EdRows
  <2> HIDE DEF v, e
  <2>6. \A w \in writes : w.gen # mounts
    BY <2>1 DEF Saving
  <2>7. EditorTyped'
    BY <1>0, <2>1, <2>2, <2>3, <2>4, <2>5, <2>6 DEF EditorTyped
  <2>8. EditorSound'
    BY <1>0, <2>1, <2>3, <2>5, <2>6 DEF EditorSound
  <2>9. EditorHeld'
    BY <2>1, <2>3, <2>5 DEF EditorHeld
  <2>10. QED BY <1>0, <2>7, <2>8, <2>9
<1>5. ASSUME NEW w \in writes, write(w) PROVE EditorInv'
  <2>1. PICK at \in {"done", "failed"} :
          /\ writes' = (writes \ {w}) \cup {[w EXCEPT !.at = at]}
          /\ at = "done" => /\ files' = [files EXCEPT ![w.path] = w.content]
                            /\ held' = [held EXCEPT ![w.path] = @ \cup {w.content}]
          /\ at = "failed" => files' = files /\ held' = held
          /\ UNCHANGED <<ed, cache, reads, edits>>
    BY <1>5 DEF write
  <2> DEFINE v == [w EXCEPT !.at = at]
  <2>2. w \in WriteRows /\ w.path \in Paths /\ w.content \in Contents /\ w.content.path = w.path /\ w.content.gen = w.gen
    BY DEF EditorTyped, WriteRows
  <2>3. v \in WriteRows /\ v.path = w.path /\ v.content = w.content /\ v.gen = w.gen /\ v.at = at
    BY <2>2 DEF WriteRows
  <2>4. writes' = (writes \ {w}) \cup {v}
    BY <2>1
  <2> HIDE DEF v
  <2>5. /\ files' \in [Paths -> Contents]
        /\ \A p \in Paths : files'[p] = files[p] \/ (p = w.path /\ at = "done" /\ files'[p] = w.content)
        /\ at = "done" => files'[w.path] = w.content
    BY <2>1, <2>2 DEF EditorTyped
  <2>6. \A u \in writes' : u = v \/ (u \in writes /\ u.gen # w.gen)
    BY <2>4 DEF EditorTyped
  <2>7. EditorTyped'
    <3>1. writes' \subseteq WriteRows
      BY <2>3, <2>6 DEF EditorTyped
    <3>2. \A p \in Paths : files'[p].path = p
      BY <2>2, <2>5 DEF EditorTyped
    <3>3. \A u \in writes' : u.content.path = u.path /\ u.content.gen = u.gen /\ u.gen <= mounts /\ u.gen > 0
      BY <2>2, <2>3, <2>6 DEF EditorTyped
    <3>4. \A t, u \in writes' : t.gen = u.gen => t = u
      BY <2>3, <2>6 DEF EditorTyped
    <3>5. QED BY <1>0, <2>1, <2>5, <3>1, <3>2, <3>3, <3>4 DEF EditorTyped
  <2>8. EditorSound'
    <3>1. ASSUME NEW u \in writes', u.gen = mounts, ed.pending # None
          PROVE  ed.dirty /\ (ed.raced \/ ed.pending = u.content)
      BY <2>3, <2>6, <3>1 DEF EditorSound
    <3>2. ASSUME NEW u \in writes', u.gen = mounts, u.at = "done"
          PROVE  files'[u.path] = u.content \/ files'[u.path].gen # mounts
      <4>1. CASE u = v
        BY <2>3, <2>5, <3>2, <4>1
      <4>2. CASE u \in writes /\ u.gen # w.gen
        <5>1. u.path \in Paths
          BY <4>2 DEF EditorTyped, WriteRows
        <5>2. QED BY <2>2, <2>5, <3>2, <4>2, <5>1 DEF EditorSound
      <4>3. QED BY <2>6, <4>1, <4>2
    <3>3. ASSUME ed.pending # None, ~ed.dirty
          PROVE  ed.raced \/ files'[ed.sel] = ed.pending \/ files'[ed.sel].gen # mounts
      <4>1. w.gen # mounts
        BY <3>3 DEF EditorSound
      <4>2. ed.sel \in Paths
        BY <3>3 DEF EditorTyped
      <4>3. QED BY <2>2, <2>5, <3>3, <4>1, <4>2 DEF EditorSound
    <3>4. QED BY <1>0, <2>1, <3>1, <3>2, <3>3 DEF EditorSound
  <2>9. EditorHeld'
    <3>1. CASE at = "failed"
      BY <2>1, <2>3, <2>6, <3>1 DEF EditorHeld
    <3>2. CASE at = "done"
      <4>1. \A u \in writes' : u.at = "done" => u \in writes \/ (u.path = w.path /\ u.content = w.content)
        BY <2>3, <2>6
      <4>2. PICK p \in Paths, c \in Contents : p = w.path /\ c = w.content
        BY <2>2
      <4>3. files' = [files EXCEPT ![p] = c] /\ held' = [held EXCEPT ![p] = @ \cup {c}]
        BY <2>1, <3>2, <4>2
      <4>4. /\ files \in [Paths -> Contents] /\ (ed.pending # None => ed.sel \in Paths)
            /\ \A u \in writes : u.path \in Paths
        BY DEF EditorTyped, WriteRows
      <4>5. \A u \in writes' : u.at = "done" => u \in writes \/ (u.path = p /\ u.content = c)
        BY <4>1, <4>2
      <4>6. EditorHeld /\ UNCHANGED ed /\ UNCHANGED cache /\ UNCHANGED reads
        BY <2>1
      <4>7. QED BY <4>3, <4>4, <4>5, <4>6, HeldGrows
    <3>3. QED BY <3>1, <3>2
  <2>10. QED BY <1>0, <2>7, <2>8, <2>9
<1>6. ASSUME NEW w \in writes, saved(w) PROVE EditorInv'
  <2> DEFINE e == [ed EXCEPT !.dirty = FALSE]
  <2>1. /\ writes' = writes \ {w} /\ UNCHANGED <<files, held, cache, edits>>
        /\ ed' = IF w.at = "done" /\ w.gen = mounts /\ Active(view) THEN e ELSE ed
    BY <1>6 DEF saved
  <2>2. e \in EdRows
    BY Zenon DEF EditorTyped, EdRows
  <2>3. e.sel = ed.sel /\ e.pending = ed.pending /\ e.raced = ed.raced /\ e.mounted = ed.mounted
    BY DEF EditorTyped, EdRows
  <2> HIDE DEF e
  <2>4. ed' \in EdRows /\ ed'.sel = ed.sel /\ ed'.pending = ed.pending /\ ed'.raced = ed.raced /\ (ed' = ed \/ Active(view))
    BY <2>1, <2>2, <2>3 DEF EditorTyped
  <2>5. EditorTyped'
    BY <1>0, <2>1, <2>4 DEF EditorTyped
  <2>6. EditorSound'
    <3>1. CASE ed' = ed
      BY <1>0, <2>1, <3>1 DEF EditorSound
    <3>2. CASE w.at = "done" /\ w.gen = mounts
      <4>1. \A u \in writes' : u.gen # mounts
        BY <2>1, <3>2 DEF EditorTyped
      <4>2. ed.pending # None => ed.raced \/ (ed.pending = w.content /\ ed.sel = w.path)
        BY <3>2 DEF EditorSound, EditorTyped
      <4>3. files[w.path] = w.content \/ files[w.path].gen # mounts
        BY <3>2 DEF EditorSound
      <4>4. QED BY <1>0, <2>1, <2>4, <4>1, <4>2, <4>3 DEF EditorSound
    <3>3. QED BY <2>1, <3>1, <3>2
  <2>7. EditorHeld'
    <3>1. reads' \subseteq ReadRows /\ \A r \in reads' : r \in reads \/ r.content = None
      <4>1. w.path \in Paths
        BY DEF EditorTyped, WriteRows
      <4>2. QED BY <1>6, <4>1, AskingIs DEF saved, EditorHeld
    <3>2. ed'.mounted = ed.mounted
      BY <2>1, <2>3
    <3>3. ed'.pending # None /\ ~ed'.dirty => ed'.raced \/ ed'.pending \in held[ed'.sel]
      <4>1. CASE ed' = ed
        BY <4>1 DEF EditorHeld
      <4>2. CASE w.at = "done" /\ w.gen = mounts
        <5>1. ed.pending # None => ed.raced \/ (ed.pending = w.content /\ ed.sel = w.path)
          BY <4>2 DEF EditorSound, EditorTyped
        <5>2. w.content \in held[w.path]
          BY <4>2 DEF EditorHeld
        <5>3. QED BY <2>4, <5>1, <5>2
      <4>3. QED BY <2>1, <4>1, <4>2
    <3>4. QED BY <2>1, <2>4, <3>1, <3>2, <3>3 DEF EditorHeld
  <2>8. QED BY <1>0, <2>5, <2>6, <2>7
<1>7. CASE refetch
  <2>1. /\ ed.sel \in Paths /\ reads' = Asking(ed.sel) /\ UNCHANGED <<files, held, ed, cache, writes, edits>>
    BY <1>7 DEF refetch, EditorTyped, EdRows
  <2>2. reads' \subseteq ReadRows /\ \A r \in reads' : r \in reads \/ r.content = None
    BY <2>1, AskingIs DEF EditorHeld
  <2>3. EditorTyped' /\ EditorSound'
    BY <1>0, <2>1 DEF EditorTyped, EditorSound
  <2>4. EditorHeld'
    BY <2>1, <2>2 DEF EditorHeld
  <2>5. QED BY <1>0, <2>3, <2>4
<1>8. ASSUME NEW r \in reads, read(r) PROVE EditorInv'
  <2> DEFINE q == [r EXCEPT !.content = files[r.path]]
  <2>1. UNCHANGED <<files, held, ed, cache, writes, edits>> /\ \A o \in reads' : o \in reads \/ o = q
    BY <1>8 DEF read
  <2>2. r \in ReadRows /\ files[r.path] \in Contents /\ files[r.path] \in held[r.path]
    BY DEF EditorHeld, EditorTyped, ReadRows
  <2>3. q \in ReadRows /\ q.path = r.path /\ q.content = files[r.path]
    BY <2>2 DEF ReadRows, Maybe
  <2> HIDE DEF q
  <2>4. EditorTyped' /\ EditorSound'
    BY <1>0, <2>1 DEF EditorTyped, EditorSound
  <2>5. EditorHeld'
    BY <2>1, <2>2, <2>3 DEF EditorHeld
  <2>6. QED BY <1>0, <2>4, <2>5
<1>9. ASSUME NEW r \in reads, readArrives(r) PROVE EditorInv'
  <2> DEFINE e == [ed EXCEPT !.mounted = r.content]
  <2>1. /\ r.content # None /\ reads' = reads \ {r} /\ cache' = [cache EXCEPT ![r.path] = r.content]
        /\ (ed' = ed \/ (ed' = e /\ ed.sel = r.path)) /\ UNCHANGED <<files, held, writes, edits>>
    BY <1>9 DEF readArrives
  <2>2. r.path \in Paths /\ r.content \in Maybe /\ r.content \in held[r.path]
    BY <2>1 DEF EditorHeld, ReadRows
  <2>3. e \in EdRows
    BY <2>2, Zenon DEF EditorTyped, EdRows
  <2>4. /\ e.sel = ed.sel /\ e.pending = ed.pending /\ e.dirty = ed.dirty /\ e.raced = ed.raced
        /\ e.mounted = r.content
    BY DEF EditorTyped, EdRows
  <2> HIDE DEF e
  <2>5. /\ ed' \in EdRows /\ ed'.sel = ed.sel /\ ed'.pending = ed.pending /\ ed'.dirty = ed.dirty /\ ed'.raced = ed.raced
        /\ ed'.mounted = ed.mounted \/ (ed'.mounted = r.content /\ ed.sel = r.path)
    BY <2>1, <2>3, <2>4 DEF EditorTyped
  <2>6. ~Active(view) => ed' = Blank
    BY <2>1, <2>2, BlankIs, EditorAssumption DEF EditorTyped
  <2>7. EditorTyped' /\ EditorSound'
    BY <1>0, <2>1, <2>5, <2>6 DEF EditorTyped, EditorSound
  <2>8. EditorHeld'
    <3>1. cache' \in [Paths -> Maybe] /\ \A p \in Paths : cache'[p] = cache[p] \/ (p = r.path /\ cache'[p] = r.content)
      BY <2>1, <2>2 DEF EditorHeld
    <3>2. QED BY <2>1, <2>2, <2>5, <3>1 DEF EditorHeld
  <2>9. QED BY <1>0, <2>7, <2>8
<1>10. QED BY <1>1, <1>2, <1>3, <1>4, <1>5, <1>6, <1>7, <1>8, <1>9 DEF EditorNext

LEMMA EditorInvNext ==
  ASSUME PageInv, EditorInv, [Next]_vars
  PROVE  EditorInv'
<1>1. \/ PageNext /\ Follows
      \/ pane = "editor" /\ EditorNext /\ UNCHANGED pane
      \/ UNCHANGED <<files, held, ed, cache, reads, writes, edits, pane>>
  BY DEF Next, vars, editorVars, TerminalActs
<1>2. CASE UNCHANGED <<files, held, ed, cache, reads, writes, edits, pane>>
  <2>1. CASE UNCHANGED <<view, mounts, pane>>
    <3>1. EditorTyped'
      BY <1>2, <2>1 DEF EditorInv, EditorTyped
    <3>2. EditorSound' /\ EditorHeld' /\ EditorApart'
      BY <1>2, <2>1 DEF EditorInv, EditorSound, EditorHeld, EditorApart
    <3>3. QED BY <3>1, <3>2 DEF EditorInv
  <2>2. QED BY <2>1, OtherSteps, EditorOnPage
<1>3. QED BY <1>1, <1>2, EditorOnPage, EditorSteps

\* WorkspaceEditor.tsx, selectFile, save and what follows its answer: no file
\* gets what was typed for another, the screen under "Saved" shows what the file
\* has had (text typed while a save ran excepted), and text saved in this pane
\* is in the file until another writer comes, for any files, edits, reads,
\* writers and mounts of the pane.
THEOREM SavedIsTrue == Spec => []SavedIsSaved
<1>1. Init => PageInv /\ EditorInv
  <2>1. SUFFICES ASSUME Init PROVE PageInv /\ EditorInv
    OBVIOUS
  <2>2. PageInv
    BY <2>1 DEF Init, PageInit, PageInv, Active
  <2>3. /\ files = [p \in Paths |-> Typed(p, 0, 0)] /\ ed = Blank /\ writes = {} /\ edits = 0
        /\ held = [p \in Paths |-> {files[p]}] /\ cache = [p \in Paths |-> None] /\ reads = {}
    BY <2>1 DEF Init, EditorInit
  <2>4. files \in [Paths -> Contents] /\ \A p \in Paths : files[p].path = p
    BY <2>3, TypedIs
  <2>5. EditorHeld
    BY <2>3, <2>4, BlankIs DEF EditorHeld, Maybe
  <2>6. QED BY <2>2, <2>3, <2>4, <2>5, BlankIs DEF EditorInv, EditorTyped, EditorSound, EditorApart
<1>2. PageInv /\ EditorInv /\ [Next]_vars => (PageInv /\ EditorInv)'
  BY PageInvNext, EditorInvNext
<1>3. EditorInv => SavedIsSaved
  BY DEF EditorInv, EditorTyped, EditorSound, EditorHeld, SavedIsSaved, Screen
<1>4. QED BY <1>1, <1>2, <1>3, PTL DEF Spec

-----------------------------------------------------------------------------
(* What costs is asked for *)

LEMMA SubmitNext ==
  ASSUME SubmitInv, [Next]_vars
  PROVE  SubmitInv'
<1>1. CASE UNCHANGED <<check, calls, proved>>
  BY <1>1 DEF SubmitInv
<1>2. ASSUME NEW from, Leave(from), UNCHANGED proved, check' = "none" PROVE SubmitInv'
  <2>1. \A d \in calls' : \E c \in calls : d.at = c.at /\ d.silent = c.silent
    <3>1. ASSUME NEW d \in calls' PROVE \E c \in calls : d.at = c.at /\ d.silent = c.silent
      <4>1. PICK c \in calls : d = [c EXCEPT !.from = IF @ = "gone" THEN @ ELSE from]
        BY <1>2, <3>1 DEF Leave
      <4>2. d.at = c.at /\ d.silent = c.silent
        BY <4>1
      <4>3. QED BY <4>2
    <3>2. QED BY <3>1
  <2>2. QED BY <1>2, <2>1 DEF SubmitInv
<1>3. CASE PageNext
  BY <1>1, <1>2, <1>3 DEF PageNext, Poll, Focus, Serve, Arrive, FetchFails, Navigate, Reload, Elsewhere
<1>4. ASSUME NEW kind, NEW silent, Send(kind, silent), silent => check = "passing" PROVE SubmitInv'
  <2>1. calls' = calls \cup {[kind |-> kind, at |-> "sent", from |-> "here", silent |-> silent]}
        /\ UNCHANGED <<check, proved>>
    BY <1>4 DEF Send
  <2>2. \A d \in calls' : d \in calls \/ (d.at = "sent" /\ d.silent = silent)
    BY <2>1
  <2>3. QED BY <1>4, <2>1, <2>2 DEF SubmitInv
<1>5. ASSUME NEW c \in calls, Handle(c) \/ Score(c) PROVE SubmitInv'
  <2>1. UNCHANGED check /\ \E at : Turns(c, at) /\ (at = "passing" => proved' = TRUE)
    BY <1>5 DEF Handle, Score
  <2>2. PICK at : Turns(c, at) /\ (at = "passing" => proved' = TRUE)
    BY <2>1
  <2>3. proved' = proved \/ proved' = TRUE
    BY <1>5 DEF Handle, Score
  <2> DEFINE e == [c EXCEPT !.at = at]
  <2>4. \A d \in calls' : d \in calls \/ d = e
    BY <2>2 DEF Turns
  <2>5. e.silent = c.silent /\ (e.at = at \/ e.at = c.at)
    OBVIOUS
  <2> HIDE DEF e
  <2>6. QED BY <2>1, <2>2, <2>3, <2>4, <2>5 DEF SubmitInv
<1>6. ASSUME NEW c \in calls, Answer(c) \/ ReplyLost(c) PROVE SubmitInv'
  <2>1. calls' = calls \ {c} /\ UNCHANGED proved /\ (check' = check \/ check' = c.at)
    BY <1>6 DEF Answer, useAttemptAction, checkMutation, Reject, ReplyLost
  <2>2. QED BY <2>1 DEF SubmitInv
<1>7. CASE onDismiss
  BY <1>7 DEF onDismiss, SubmitInv
<1>8. CASE Start \/ Check \/ handleSubmit
  BY <1>4, <1>8 DEF Start, Check, handleSubmit
<1>9. CASE ButtonsNext
  BY <1>5, <1>6, <1>7, <1>8, <1>9 DEF ButtonsNext
<1>10. ASSUME NEW c, TerminalStep(c) PROVE SubmitInv'
  BY <1>1, <1>10 DEF TerminalStep, Connect, connectTold, SocketOpens, SocketDrops, scheduleReconnect, Reconnect, pageVars
<1>11. CASE EditorNext
  BY <1>1, <1>11 DEF EditorNext, selectFile, ShellWrites, onChange, save, refetch, read, readArrives, write,
     saved, pageVars
<1>12. CASE HintNext
  BY <1>1, <1>12 DEF HintNext, previewHint, previewArrives, Reveal, revealHint, revealLate, revealMutation,
     RevealLost, RevealedElsewhere, pageVars
<1>13. CASE UNCHANGED vars
  BY <1>1, <1>13 DEF vars, pageVars
<1>14. QED BY <1>3, <1>9, <1>10, <1>11, <1>12, <1>13 DEF Next, TerminalActs

LEMMA PanelIs ==
  ASSUME NEW prices \in [Keys -> Int], NEW asked \in SUBSET [key : Keys, at : Int], NEW late \in Nat
  PROVE  /\ Panel(prices, asked, late) \in HintRows
         /\ Panel(prices, asked, late).revealed = 0 /\ Panel(prices, asked, late).cache = prices
         /\ Panel(prices, asked, late).asked = asked /\ Panel(prices, asked, late).reveal = "none"
         /\ Panel(prices, asked, late).late = late
BY LadderAssumption DEF Panel, HintRows

LEMMA FreshPanel ==
  [k \in Keys |-> -1] \in [Keys -> Int] /\ 0 \in Keys
BY LadderAssumption DEF Keys

\* A step of the page: the panel stays, or a new one is mounted.
LEMMA HintOnPage ==
  ASSUME PageInv, HintInv, PageNext, Follows
  PROVE  HintInv'
<1>1. UNCHANGED <<level, charged, pane>>
  BY DEF Follows, HintFollows, hintVars
<1>2. mounts \in Nat /\ (mounts' = mounts \/ mounts' = mounts + 1)
  BY PageMoves DEF PageInv
<1>3. CASE pane # "hints"
  BY <1>1, <1>3 DEF Follows, hintVars, HintInv, Behind
<1>4. CASE pane = "hints" /\ mounts' = mounts
  <2>1. UNCHANGED hint /\ clean' = (clean /\ mounts' <= 1)
    BY <1>4 DEF Follows, HintFollows
  <2>2. clean' \in BOOLEAN /\ (clean' => clean)
    BY <2>1
  <2>3. QED BY <1>1, <1>4, <2>1, <2>2 DEF HintInv, LevelPanel, Behind
<1>5. CASE pane = "hints" /\ mounts' # mounts
  <2> DEFINE asked == hint.asked \cup {[key |-> 0, at |-> -1]}
             late == hint.late + IF hint.reveal = "sent" THEN 1 ELSE 0
  <2>1. hint' = Panel(hint.cache, asked, late) /\ clean' = (clean /\ mounts' <= 1)
    BY <1>5 DEF Follows, HintFollows
  <2>2. hint.cache \in [Keys -> Int] /\ asked \in SUBSET [key : Keys, at : Int] /\ late \in Nat
    BY FreshPanel DEF HintInv, HintRows
  <2>3. clean' \in BOOLEAN /\ (clean' => clean /\ mounts = 0 /\ mounts' = 1)
    <3>1. clean' \in BOOLEAN /\ (clean' => clean /\ mounts' <= 1)
      BY <2>1
    <3>2. mounts' <= 1 => mounts = 0 /\ mounts' = 1
      BY <1>2, <1>5
    <3>3. QED BY <3>1, <3>2
  <2>4. ASSUME clean' PROVE LevelPanel'
    <3>1. level = 0 /\ hint = Panel([k \in Keys |-> -1], {}, 0) /\ mounts' = 1
      BY <1>5, <2>3, <2>4 DEF HintInv, LevelPanel
    <3>2. hint.cache = [k \in Keys |-> -1] /\ hint.asked = {} /\ hint.late = 0 /\ hint.reveal = "none"
      BY <3>1, FreshPanel, PanelIs
    <3>3. asked = {[key |-> 0, at |-> -1]} /\ late = 0
      BY <3>2
    <3>4. /\ hint'.revealed = 0 /\ hint'.cache = [k \in Keys |-> -1] /\ hint'.asked = {[key |-> 0, at |-> -1]}
          /\ hint'.reveal = "none" /\ hint'.late = 0
      BY <2>1, <2>2, <3>2, <3>3, PanelIs
    <3> HIDE DEF asked, late
    <3>5. \A q \in hint'.asked : q.key = 0 /\ q.at = -1 /\ \A r \in hint'.asked : q = r
      BY <3>4
    <3>6. hint'.cache[0] = -1 /\ \A k \in Keys : ~(hint'.cache[k] > 0)
      BY <3>4, FreshPanel
    <3>7. QED BY <1>1, <3>1, <3>4, <3>5, <3>6 DEF LevelPanel
  <2>5. hint' \in HintRows
    BY <2>1, <2>2, PanelIs
  <2>6. Behind'
    <3>1. hint'.revealed = 0 /\ hint'.reveal = "none"
      BY <2>1, <2>2, PanelIs
    <3>2. level' \in Nat
      BY <1>1, LadderAssumption DEF HintInv, Keys
    <3>3. QED BY <3>1, <3>2 DEF Behind
  <2>7. QED BY <1>1, <2>3, <2>4, <2>5, <2>6 DEF HintInv
<1>6. QED BY <1>3, <1>4, <1>5

LEMMA HintSteps ==
  ASSUME PageInv, HintInv, HintNext, pane = "hints", UNCHANGED pane
  PROVE  HintInv'
<1>a. UNCHANGED <<view, mounts>>
  BY DEF HintNext, previewHint, previewArrives, Reveal, revealHint, revealLate, revealMutation, RevealLost,
         RevealedElsewhere, pageVars
<1>b. level \in Nat /\ level <= Ladder /\ Ladder \in Nat
  <2>1. level \in Keys
    BY DEF HintInv
  <2>2. QED BY <2>1, LadderAssumption DEF Keys
<1>0. UNCHANGED <<view, mounts>> /\ hint \in HintRows /\ level \in Nat /\ level <= Ladder /\ Ladder \in Nat
      /\ (clean => LevelPanel) /\ Behind
  BY <1>a, <1>b DEF HintInv
<1>1. hint.revealed \in Nat /\ hint.cache \in [Keys -> Int] /\ hint.asked \subseteq [key : Keys, at : Int]
      /\ hint.reveal \in {"none", "sent", "ok", "error"} /\ hint.agreed \in Int /\ hint.late \in Nat
  BY <1>0 DEF HintRows
<1>2. CASE previewHint
  <2>1. PICK q \in hint.asked :
          /\ q.at = -1
          /\ hint' = [hint EXCEPT !.asked = (@ \ {q}) \cup {[q EXCEPT !.at = IF level < Ladder THEN level + 1 ELSE 0]}]
          /\ UNCHANGED <<level, charged, clean>>
    BY <1>2 DEF previewHint
  <2> DEFINE r == [q EXCEPT !.at = IF level < Ladder THEN level + 1 ELSE 0]
             h == [hint EXCEPT !.asked = (@ \ {q}) \cup {r}]
  <2>2. r \in [key : Keys, at : Int] /\ r.key = q.key /\ r.at = IF level < Ladder THEN level + 1 ELSE 0
    BY <1>0, <1>1
  <2>3. hint' = h
    BY <2>1
  <2> HIDE DEF r
  <2>4. h \in HintRows
    BY <1>0, <1>1, <2>2 DEF HintRows
  <2>5. /\ h.revealed = hint.revealed /\ h.cache = hint.cache /\ h.asked = (hint.asked \ {q}) \cup {r}
        /\ h.reveal = hint.reveal /\ h.agreed = hint.agreed /\ h.late = hint.late
    BY <1>0 DEF HintRows
  <2> HIDE DEF h
  <2>6. ASSUME clean PROVE LevelPanel'
    <3>1. mounts # 0
      <4>1. mounts = 0 => hint.asked = {}
        BY <1>0, <2>6, FreshPanel, PanelIs DEF LevelPanel
      <4>2. QED BY <4>1
    <3>2. h.asked = {r} /\ q.key = hint.revealed /\ hint.reveal = "none" /\ hint.cache[hint.revealed] = -1
      BY <1>0, <2>5, <2>6 DEF LevelPanel
    <3>3. /\ \A x \in hint'.asked : x.key = hint'.revealed /\ x.at \in {-1, IF level' < Ladder THEN level' + 1 ELSE 0}
          /\ \A x, y \in hint'.asked : x = y
      <4>1. hint'.asked = {r} /\ level' = level /\ hint'.revealed = hint.revealed
        BY <2>1, <2>3, <2>5, <3>2
      <4>2. r.key = hint.revealed /\ r.at = IF level' < Ladder THEN level' + 1 ELSE 0
        BY <2>2, <3>2, <4>1
      <4>3. QED BY <4>1, <4>2
    <3>4. hint'.reveal = "none" /\ hint'.cache[hint'.revealed] = -1 /\ hint'.late = 0 /\ hint'.revealed = level'
      BY <1>0, <2>1, <2>3, <2>5, <2>6, <3>2 DEF LevelPanel
    <3>5. \A k \in Keys : hint'.cache[k] > 0 => hint'.cache[k] = k + 1 /\ k < Ladder
      BY <1>0, <2>3, <2>5, <2>6 DEF LevelPanel
    <3>6. mounts' <= 1 /\ mounts' # 0
      BY <1>0, <2>6, <3>1 DEF LevelPanel
    <3>7. QED BY <3>3, <3>4, <3>5, <3>6 DEF LevelPanel
  <2>7. QED BY <1>0, <2>1, <2>3, <2>4, <2>5, <2>6 DEF HintInv, Behind
<1>3. CASE previewArrives
  <2>1. PICK q \in hint.asked :
          /\ q.at # -1
          /\ hint' = [hint EXCEPT !.asked = @ \ {q}, !.cache[q.key] = q.at]
          /\ UNCHANGED <<level, charged, clean>>
    BY <1>3 DEF previewArrives
  <2> DEFINE c == [hint.cache EXCEPT ![q.key] = q.at]
             h == [hint EXCEPT !.asked = hint.asked \ {q}, !.cache = c]
  <2>2. q.key \in Keys /\ q.at \in Int /\ c \in [Keys -> Int] /\ c[q.key] = q.at /\ \A k \in Keys : k # q.key => c[k] = hint.cache[k]
    BY <1>1
  <2>3. hint' = h
    BY <2>1
  <2> HIDE DEF c
  <2>4. h \in HintRows
    BY <1>0, <1>1, <2>2 DEF HintRows
  <2>5. /\ h.revealed = hint.revealed /\ h.cache = c /\ h.asked = hint.asked \ {q}
        /\ h.reveal = hint.reveal /\ h.agreed = hint.agreed /\ h.late = hint.late
    BY <1>0 DEF HintRows
  <2> HIDE DEF h
  <2>6. ASSUME clean PROVE LevelPanel'
    <3>1. mounts # 0
      <4>1. mounts = 0 => hint.asked = {}
        BY <1>0, <2>6, FreshPanel, PanelIs DEF LevelPanel
      <4>2. QED BY <4>1
    <3>2. h.asked = {} /\ q.key = hint.revealed /\ hint.reveal = "none" /\ hint.revealed = level
          /\ q.at = IF level < Ladder THEN level + 1 ELSE 0
      BY <1>0, <2>1, <2>5, <2>6 DEF LevelPanel
    <3>3. \A k \in Keys : c[k] > 0 => c[k] = k + 1 /\ k < Ladder
      <4>1. \A k \in Keys : hint.cache[k] > 0 => hint.cache[k] = k + 1 /\ k < Ladder
        BY <1>0, <2>6 DEF LevelPanel
      <4>2. c[q.key] > 0 => c[q.key] = q.key + 1 /\ q.key < Ladder
        BY <1>0, <2>2, <3>2
      <4>3. QED BY <2>2, <4>1, <4>2
    <3>4. QED BY <1>0, <2>1, <2>3, <2>5, <2>6, <3>1, <3>2, <3>3 DEF LevelPanel
  <2>7. QED BY <1>0, <2>1, <2>3, <2>4, <2>5, <2>6 DEF HintInv, Behind
<1>4. CASE Reveal
  <2> DEFINE a == hint.cache[hint.revealed]
             h == [hint EXCEPT !.reveal = "sent", !.agreed = a]
  <2>1. Active(view) /\ hint.reveal = "none" /\ a > 0 /\ hint' = h /\ UNCHANGED <<level, charged, clean>>
    BY <1>4 DEF Reveal, queryKey
  <2>2. ASSUME a \in Int PROVE h \in HintRows
    BY <1>0, <1>1, <2>2 DEF HintRows
  <2>3. /\ h.revealed = hint.revealed /\ h.cache = hint.cache /\ h.asked = hint.asked
        /\ h.reveal = "sent" /\ h.agreed = a /\ h.late = hint.late
    BY <1>0 DEF HintRows
  <2>4. a \in Int
    BY <1>0, <1>1, <2>1 DEF Behind, Keys
  <2> HIDE DEF h
  <2>5. ASSUME clean PROVE LevelPanel'
    <3>1. mounts # 0
      BY <2>1 DEF PageInv
    <3>2. hint.revealed = level /\ level \in Keys /\ a = level + 1 /\ level < Ladder /\ hint.asked = {}
      <4>1. hint.revealed = level /\ level \in Keys
        BY <1>0, <2>1, <2>5 DEF LevelPanel, HintInv
      <4>2. QED BY <1>0, <2>1, <2>5, <4>1 DEF LevelPanel
    <3>3. QED BY <1>0, <2>1, <2>3, <2>5, <3>1, <3>2 DEF LevelPanel
  <2>6. QED BY <1>0, <2>1, <2>2, <2>3, <2>4, <2>5 DEF HintInv, Behind
<1>5. CASE revealHint
  <2>1. hint.reveal = "sent" /\ UNCHANGED clean
    BY <1>5 DEF revealHint
  <2>2. CASE level < Ladder
    <3> DEFINE h == [hint EXCEPT !.reveal = "ok"]
    <3>1. level' = level + 1 /\ hint' = h /\ charged' = charged \cup {[level |-> level + 1, agreed |-> hint.agreed]}
      BY <1>5, <2>2 DEF revealHint
    <3>2. h \in HintRows
      BY <1>0 DEF HintRows
    <3>3. /\ h.revealed = hint.revealed /\ h.cache = hint.cache /\ h.asked = hint.asked
          /\ h.reveal = "ok" /\ h.agreed = hint.agreed /\ h.late = hint.late
      BY <1>0 DEF HintRows
    <3> HIDE DEF h
    <3>4. level' \in Keys
      BY <1>0, <2>2, <3>1 DEF Keys
    <3>5. ASSUME clean PROVE LevelPanel'
      <4>1. mounts # 0
        <5>1. mounts = 0 => hint.reveal = "none"
          BY <1>0, <3>5, FreshPanel, PanelIs DEF LevelPanel
        <5>2. QED BY <2>1, <5>1
      <4>2. hint.asked = {} /\ hint.revealed = level
        BY <1>0, <2>1, <3>5 DEF LevelPanel
      <4>3. QED BY <1>0, <3>1, <3>3, <3>5, <4>1, <4>2 DEF LevelPanel
    <3>6. ASSUME clean, NEW c \in charged' PROVE c.level = c.agreed
      <4>1. hint.agreed = level + 1
        BY <1>0, <2>1, <3>6 DEF LevelPanel
      <4>2. QED BY <3>1, <3>6, <4>1 DEF HintInv
    <3>7. Behind'
      BY <1>0, <1>1, <2>1, <3>1, <3>3 DEF Behind
    <3>8. QED BY <2>1, <3>1, <3>2, <3>4, <3>5, <3>6, <3>7 DEF HintInv
  <2>3. CASE ~(level < Ladder)
    <3> DEFINE h == [hint EXCEPT !.reveal = "error"]
    <3>1. hint' = h /\ UNCHANGED <<level, charged>>
      BY <1>5, <2>3 DEF revealHint
    <3>2. h \in HintRows
      BY <1>0 DEF HintRows
    <3>3. ~clean
      BY <1>0, <2>1, <2>3 DEF LevelPanel
    <3>4. Behind'
      BY <1>0, <1>1, <2>1, <3>1 DEF Behind, HintRows
    <3>5. QED BY <2>1, <3>1, <3>2, <3>3, <3>4 DEF HintInv
  <2>4. QED BY <2>2, <2>3
<1>6. CASE revealLate
  <2> DEFINE h == [hint EXCEPT !.late = @ - 1]
  <2>1. hint.late > 0 /\ hint' = h /\ UNCHANGED <<charged, clean>> /\ level' = IF level < Ladder THEN level + 1 ELSE level
    BY <1>6 DEF revealLate
  <2>2. h \in HintRows
    BY <1>0, <1>1, <2>1 DEF HintRows
  <2>3. ~clean /\ level' \in Keys
    BY <1>0, <2>1 DEF LevelPanel, Keys
  <2>4. Behind'
    BY <1>0, <1>1, <2>1 DEF Behind, HintRows
  <2>5. QED BY <2>1, <2>2, <2>3, <2>4 DEF HintInv
<1>7. CASE revealMutation
  <2>1. hint.reveal \in {"ok", "error"} /\ UNCHANGED <<level, charged, clean>>
    BY <1>7 DEF revealMutation
  <2>2. CASE hint.reveal = "error"
    <3> DEFINE h == [hint EXCEPT !.reveal = "none"]
    <3>1. hint' = h /\ h \in HintRows
      BY <1>0, <1>7, <2>2 DEF revealMutation, HintRows
    <3>2. ~clean
      BY <1>0, <2>2 DEF LevelPanel
    <3>3. Behind'
      BY <1>0, <1>1, <2>1, <2>2, <3>1 DEF Behind, HintRows
    <3>4. QED BY <2>1, <3>1, <3>2, <3>3 DEF HintInv
  <2>3. CASE hint.reveal # "error"
    <3> DEFINE n == hint.revealed + 1
               s == hint.asked \cup (IF hint.cache[n] = -1 THEN {[key |-> n, at |-> -1]} ELSE {})
               h == [hint EXCEPT !.reveal = "none", !.revealed = n, !.asked = s]
    <3>1. hint' = h
      BY <1>7, <2>3 DEF revealMutation
    <3>2. n \in Keys
      BY <1>0, <1>1, <2>1, <2>3 DEF Behind, Keys
    <3>3. s \in SUBSET [key : Keys, at : Int]
      BY <1>1, <3>2
    <3>4. n \in Nat
      BY <1>1
    <3> HIDE DEF n, s
    <3>5. h \in HintRows
      BY <1>0, <1>1, <3>3, <3>4 DEF HintRows
    <3>6. /\ h.revealed = n /\ h.cache = hint.cache /\ h.asked = s
          /\ h.reveal = "none" /\ h.agreed = hint.agreed /\ h.late = hint.late
      BY <1>0 DEF HintRows
    <3> HIDE DEF h
    <3>7. ASSUME clean PROVE LevelPanel'
      <4>1. mounts # 0
        <5>1. mounts = 0 => hint.reveal = "none"
          BY <1>0, <3>7, FreshPanel, PanelIs DEF LevelPanel
        <5>2. QED BY <2>1, <5>1
      <4>2. hint.asked = {} /\ n = level
        BY <1>0, <1>1, <2>1, <2>3, <3>7 DEF LevelPanel, n
      <4>3. \/ s = {} 
            \/ s = {[key |-> n, at |-> -1]} /\ hint.cache[n] = -1
        BY <4>2 DEF s
      <4>4. (s # {} => hint.cache[n] = -1) /\ \A q \in s : q.key = n /\ q.at = -1 /\ \A r \in s : q = r
        BY <4>3
      <4>5. QED BY <1>0, <2>1, <3>1, <3>6, <3>7, <4>1, <4>2, <4>4 DEF LevelPanel
    <3>8. Behind'
      BY <1>0, <1>1, <2>1, <2>3, <3>1, <3>6 DEF Behind, n
    <3>9. QED BY <2>1, <3>1, <3>5, <3>7, <3>8 DEF HintInv
  <2>4. QED BY <2>2, <2>3
<1>8. CASE RevealLost
  <2>1. hint' = [hint EXCEPT !.reveal = "none"] /\ clean' = FALSE /\ UNCHANGED <<level, charged>>
    BY <1>8 DEF RevealLost
  <2>2. hint' \in HintRows
    BY <1>0, <2>1 DEF HintRows
  <2>3. Behind'
    BY <1>0, <1>1, <2>1 DEF Behind, HintRows
  <2>4. QED BY <2>1, <2>2, <2>3 DEF HintInv
<1>9. CASE RevealedElsewhere
  <2>1. UNCHANGED <<hint, charged>> /\ clean' = FALSE /\ level' = level + 1 /\ level < Ladder
    BY <1>9 DEF RevealedElsewhere
  <2>2. level' \in Keys
    BY <1>0, <2>1 DEF Keys
  <2>3. Behind'
    BY <1>0, <1>1, <2>1 DEF Behind
  <2>4. QED BY <2>1, <2>2, <2>3 DEF HintInv
<1>10. QED BY <1>2, <1>3, <1>4, <1>5, <1>6, <1>7, <1>8, <1>9 DEF HintNext

LEMMA HintInvNext ==
  ASSUME PageInv, HintInv, [Next]_vars
  PROVE  HintInv'
<1>1. \/ PageNext /\ Follows
      \/ pane = "hints" /\ HintNext /\ UNCHANGED pane
      \/ UNCHANGED <<level, hint, charged, clean, pane>>
  BY DEF Next, vars, hintVars, TerminalActs
<1>2. CASE UNCHANGED <<level, hint, charged, clean, pane>>
  <2>1. CASE UNCHANGED <<view, mounts, pane>>
    BY <1>2, <2>1 DEF HintInv, Behind, LevelPanel
  <2>2. QED BY <2>1, OtherSteps, HintOnPage
<1>3. QED BY <1>1, <1>2, HintOnPage, HintSteps

\* HintPanel.tsx and handleSubmit of page.tsx: for any ladder of hints, the
\* hint one gets costs what the button said while nothing disturbs the panel,
\* and no submission goes without a question that no passing check preceded.
THEOREM CostsAreAskedFor == Spec => []CostIsAskedFor
<1>1. Init => PageInv /\ SubmitInv /\ HintInv
  <2>1. SUFFICES ASSUME Init PROVE PageInv /\ SubmitInv /\ HintInv
    OBVIOUS
  <2>2. PageInv
    BY <2>1 DEF Init, PageInit, PageInv, Active
  <2>3. SubmitInv
    BY <2>1 DEF Init, PageInit, SubmitInv
  <2>4. /\ level = 0 /\ charged = {} /\ clean = TRUE /\ mounts = 0
        /\ hint = Panel([k \in Keys |-> -1], {}, 0)
    BY <2>1 DEF Init, PageInit, HintInit
  <2>5. /\ hint \in HintRows /\ hint.revealed = 0 /\ hint.cache = [k \in Keys |-> -1] /\ hint.asked = {}
        /\ hint.reveal = "none" /\ hint.late = 0
    BY <2>4, FreshPanel, PanelIs
  <2>6. \A k \in Keys : ~(hint.cache[k] > 0)
    BY <2>5
  <2>7. LevelPanel
    BY <2>4, <2>5, <2>6 DEF LevelPanel
  <2>8. QED BY <2>2, <2>3, <2>4, <2>5, <2>7, FreshPanel DEF HintInv, Behind
<1>2. PageInv /\ SubmitInv /\ HintInv /\ [Next]_vars => (PageInv /\ SubmitInv /\ HintInv)'
  BY PageInvNext, SubmitNext, HintInvNext
<1>3. SubmitInv /\ HintInv => CostIsAskedFor
  BY DEF SubmitInv, HintInv, CostIsAskedFor
<1>4. QED BY <1>1, <1>2, <1>3, PTL DEF Spec
=============================================================================
