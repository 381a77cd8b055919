----------------------------- MODULE WindowFrame -----------------------------
(***************************************************************************)
(* The geometry of the main window (gui/MainWindow.cpp): what is stored    *)
(* when it closes, what a window manager does to it when it is minimized   *)
(* and restored, and how the program repairs that.                         *)
(*                                                                         *)
(* The window manager is external.  It may collapse the window to its      *)
(* minimum size when it leaves a special state.  Under Wayland it never    *)
(* tells the program that it is minimized, takes the maximized state away  *)
(* then and does not give it back; elsewhere it may give it back.  A timer *)
(* of no delay expires before the user makes another move.                 *)
(***************************************************************************)
EXTENDS Naturals, Sequences

CONSTANTS Sizes,    \* the sizes above the floor a user chooses
          Floor,    \* kMinWindowWidth x kMinWindowHeight or below
          Default,  \* almost maximized on the screen
          MaxMoves  \* bound on what the user does

ASSUME FrameAssumption ==
  Floor \notin Sizes /\ Default \notin Sizes /\ Floor # Default /\ MaxMoves \in Nat

VARIABLES wayland,    \* the window system
          shown,      \* the program runs
          flags,      \* the special states Qt knows of
          size,       \* the size the window has or returns to when normal
          normalGeometry, \* _normalGeometry
          mapped,     \* the surface is exposed
          tentative,  \* _tentativeReMax
          armed,      \* _armedReMax
          timers,     \* the deferred checks
          stored,     \* MainWindow/geometry of the settings
          wish,       \* the state the user asked for last
          collapsed,  \* the window manager collapsed the window
          moves       \* moves of the user so far

frameVars == <<wayland, shown, flags, size, normalGeometry, mapped, tentative, armed, timers,
               stored, wish, collapsed, moves>>

Special == {"min", "max", "full"}
Nothing == [flags |-> {}, size |-> Floor]
\* isFlooredGeometry().
IsFloored(s) == s = Floor

FrameInit ==
  /\ wayland \in BOOLEAN
  /\ shown = FALSE /\ flags = {} /\ size = Default /\ normalGeometry = Default /\ mapped = FALSE
  /\ tentative = FALSE /\ armed = FALSE /\ timers = <<>>
  /\ stored = <<>> /\ wish = {} /\ collapsed = FALSE /\ moves = 0

\* Mutant: any size is remembered.
RememberedAny(fl, s) == IF fl = {} THEN s ELSE normalGeometry

\* rememberNormalGeometry(), of a window with flags fl and normal size s.
Remembered(fl, s) == IF fl = {} /\ ~IsFloored(s) THEN s ELSE normalGeometry

\* restoreWindowSettings() and the first show: the geometry stored, if there is one.
Launched ==
  /\ ~shown
  /\ shown' = TRUE /\ mapped' = TRUE /\ tentative' = FALSE /\ armed' = FALSE /\ timers' = <<>>
  /\ LET blob == IF stored = <<>> THEN [flags |-> {}, size |-> Default] ELSE stored[1] IN
       /\ flags' = blob.flags /\ size' = blob.size /\ wish' = blob.flags
       /\ normalGeometry' = IF blob.flags = {} /\ ~IsFloored(blob.size) THEN blob.size ELSE Default
  /\ collapsed' = FALSE
  /\ UNCHANGED <<wayland, stored, moves>>

\* A move of the user; every timer has expired by then.
Moves == shown /\ timers = <<>> /\ moves < MaxMoves /\ moves' = moves + 1

\* resizeEvent() of a window dragged by its corner.
Resize(s) ==
  /\ Moves /\ mapped /\ flags = {}
  /\ size' = s /\ normalGeometry' = Remembered(flags, s) /\ collapsed' = FALSE
  /\ UNCHANGED <<wayland, shown, flags, mapped, tentative, armed, timers, stored, wish>>

Enter(fl) ==
  /\ flags' = fl /\ wish' = fl /\ collapsed' = FALSE
  /\ UNCHANGED <<wayland, shown, size, normalGeometry, mapped, tentative, armed, timers, stored>>

Maximize == Moves /\ mapped /\ flags = {} /\ Enter({"max"})

\* toggleFullScreen2(): showFullScreen() leaves the maximized state.
FullScreen == Moves /\ mapped /\ "full" \notin flags /\ Enter({"full"})

\* changeEvent(): a window that becomes normal is looked at later; the resize by the window
\* manager reaches resizeEvent().
LeftSpecialState(old, fl, s) ==
  /\ timers' = IF old # {} /\ fl = {} THEN Append(timers, "fixSize") ELSE timers
  /\ size' = s
  /\ normalGeometry' = Remembered(fl, s)

\* The user has the window leave the special state: the button or toggleFullScreen2().
Unmaximize(s) ==
  /\ Moves /\ mapped /\ flags # {} /\ s \in {size, Floor}
  /\ flags' = {} /\ wish' = {}
  /\ LeftSpecialState(flags, {}, s)
  /\ collapsed' = (s = Floor /\ size # Floor)
  /\ UNCHANGED <<wayland, shown, mapped, tentative, armed, stored>>

\* QWindow::visibilityChanged(Minimized): what is read while the window is still maximized.
Intent == "max" \in flags

\* eventFilter(): the surface goes, after a notice: the tentative intent is armed.
Unmapped == armed' = Intent /\ tentative' = FALSE

\* A change of visibility that is no minimizing: the surface stays.
Flicker ==
  /\ Moves /\ mapped /\ wayland
  /\ tentative' = Intent
  /\ UNCHANGED <<wayland, shown, flags, size, normalGeometry, mapped, armed, timers, stored, wish,
                 collapsed>>

\* Under Wayland only the maximized state is seen to go.
Minimize(s) ==
  /\ Moves /\ mapped /\ "full" \notin flags
  /\ s \in {size} \cup (IF wayland /\ "max" \in flags THEN {Floor} ELSE {})
  /\ mapped' = FALSE
  /\ IF wayland
     THEN /\ flags' = {}
          /\ LeftSpecialState(flags, {}, s)
          /\ collapsed' = (s = Floor /\ size # Floor)
     ELSE /\ flags' = flags \cup {"min"}
          /\ UNCHANGED <<size, normalGeometry, timers, collapsed>>
  /\ Unmapped
  /\ UNCHANGED <<wayland, shown, stored, wish>>

\* eventFilter(): the surface is back.
Remapped ==
  IF armed THEN timers' = Append(timers, "maximize") /\ armed' = FALSE
  ELSE UNCHANGED <<timers, armed>>

\* The user brings the window back under Wayland: it comes back normal.
RestoreWayland ==
  /\ Moves /\ wayland /\ ~mapped
  /\ mapped' = TRUE /\ Remapped
  /\ UNCHANGED <<wayland, shown, flags, size, normalGeometry, tentative, stored, wish, collapsed>>

\* Elsewhere: the state change is seen, and the maximized state may be kept or lost.
RestoreElsewhere(fl, s) ==
  /\ Moves /\ ~wayland /\ ~mapped
  /\ fl \in {flags \ {"min"}, {}} /\ s \in {size, Floor}
  /\ mapped' = TRUE /\ flags' = fl
  /\ size' = s /\ normalGeometry' = Remembered(fl, s)
  /\ LET fix == IF fl = {} THEN Append(timers, "fixSize") ELSE timers IN
       IF armed THEN timers' = Append(fix, "maximize") /\ armed' = FALSE
       ELSE timers' = fix /\ UNCHANGED armed
  /\ collapsed' = (fl = {} /\ s = Floor /\ size # Floor)
  /\ UNCHANGED <<wayland, shown, tentative, stored, wish>>

\* The deferred check of changeEvent().
FixSize ==
  /\ timers # <<>> /\ Head(timers) = "fixSize"
  /\ timers' = Tail(timers)
  /\ IF flags # {} \/ ~IsFloored(size)
     THEN UNCHANGED <<size, normalGeometry, collapsed>>
     ELSE /\ size' = IF IsFloored(normalGeometry) THEN Default ELSE normalGeometry
          /\ normalGeometry' = Remembered(flags, size') /\ collapsed' = FALSE
  /\ UNCHANGED <<wayland, shown, flags, mapped, tentative, armed, stored, wish, moves>>

\* The deferred part of eventFilter().
MaximizeAgain ==
  /\ timers # <<>> /\ Head(timers) = "maximize"
  /\ timers' = Tail(timers)
  /\ flags' = IF flags \cap {"min", "max"} = {} THEN {"max"} ELSE flags
  /\ UNCHANGED <<wayland, shown, size, normalGeometry, mapped, tentative, armed, stored, wish,
                 collapsed, moves>>

\* closeEvent(), saveWindowSettings(): a minimized window keeps what was stored.
CloseWindow ==
  /\ Moves
  /\ shown' = FALSE /\ mapped' = FALSE
  /\ stored' = IF "min" \in flags THEN stored ELSE <<[flags |-> flags, size |-> size]>>
  /\ UNCHANGED <<wayland, flags, size, normalGeometry, tentative, armed, timers, wish, collapsed>>

FrameUser ==
  \/ Launched
  \/ \E s \in Sizes \cup {Floor} : Resize(s)
  \/ Maximize \/ FullScreen \/ Flicker
  \/ \E s \in Sizes \cup {Default, Floor} : Unmaximize(s) \/ Minimize(s)
  \/ RestoreWayland
  \/ \E fl \in {{}, {"max"}}, s \in Sizes \cup {Default, Floor} : RestoreElsewhere(fl, s)
  \/ CloseWindow

FrameTimer == FixSize \/ MaximizeAgain

FrameNext == FrameUser \/ FrameTimer

\* The event loop runs the timers that expired.
FrameSpec == FrameInit /\ [][FrameNext]_frameVars /\ WF_frameVars(FrameTimer)
-----------------------------------------------------------------------------
\* Every variable stays in its type, and what is stored is never minimized.
FrameTypeOK ==
  /\ flags \subseteq Special
  /\ size \in Sizes \cup {Default, Floor} /\ normalGeometry \in Sizes \cup {Default, Floor}
  /\ timers \in Seq({"fixSize", "maximize"})
  /\ stored # <<>> => "min" \notin stored[1].flags
  /\ moves \in 0..MaxMoves

\* MainWindow.cpp:1306-1311: the size to return to is never the collapsed one, so two
\* collapses in a row are repaired alike.
ReturnSizeIsGood == ~IsFloored(normalGeometry)

\* MainWindow.cpp:1234-1243, 1281-1289: a window minimized when it was maximized comes back
\* maximized, unless the user has changed his mind.
LostMaximized == shown /\ mapped /\ wish = {"max"} /\ "max" \notin flags

\* MainWindow.cpp:1237-1242: whatever the visibility flickers to, no window is maximized
\* that its user had made normal.
NeverMaximizedUnasked == "max" \in flags => wish = {"max"}

\* The window neither keeps a collapsed size nor becomes maximized by itself.
FrameIsSound == FrameTypeOK /\ ReturnSizeIsGood /\ NeverMaximizedUnasked
=============================================================================
