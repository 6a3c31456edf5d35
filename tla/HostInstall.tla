------------------------------ MODULE HostInstall ------------------------------
(***************************************************************************)
(* Preparing a host for a hub: osk install (tls.py, storage.py), the drill *)
(* that says whether the host is ready (drills.py), and what osk start     *)
(* asks of it before it serves (hub.py).  An install is interrupted at any *)
(* step: a mismatched or abandoned passphrase, a failing command.  A start *)
(* fails when a command it runs does, and a hub that dies, a close that    *)
(* fails (its result is ignored) and `osk evidence unlock` leave the       *)
(* volume's mapper open, which the next start does not expect.             *)
(***************************************************************************)
EXTENDS Naturals

CONSTANTS
    Phrases,     \* passphrases an operator types
    MaxPairs     \* bound: TLS pairs generated

InstallAssumption == Phrases # {} /\ MaxPairs \in Nat \ {0}

VARIABLES
    config,    \* [luks, whisper, local]: the storage backend is luks, audio is
               \* decoded by ffmpeg, uses_local_dev_services
    tools,     \* what the operator's PATH has
    key, cert, \* the pair each file is of; 0: no file
    pairs,     \* pairs generated
    image,     \* [state, phrase]: the encrypted evidence image
    mapped,    \* /dev/mapper/osk-evidence exists
    install,   \* [at, phrase]: where osk install is
    start,     \* [at, phrase]: where osk start is
    promised,  \* history: the drill said ready, and nothing was removed since
    cut,       \* history: an install was cut short at the image, or between a
               \* new key and the certificate that replaces an old one
    left       \* history: whatever opened the mapper has left it open

host == <<tools, key, cert, image, mapped>>
vars == <<config, host, pairs, install, start, promised, cut, left>>

NoImage == [state |-> "none", phrase |-> "none"]
Idle == [at |-> "idle", phrase |-> "none"]

\* installation_issues and _find_compose_command
Installed ==
    /\ cert # 0 /\ key # 0
    /\ config.luks => image.state # "none"
    /\ config.whisper => "ffmpeg" \in tools
HasCompose == config.local => "compose" \in tools

Init ==
    /\ config \in [luks : BOOLEAN, whisper : BOOLEAN, local : BOOLEAN]
    /\ tools \in SUBSET {"ffmpeg", "compose"}
    /\ key = 0 /\ cert = 0 /\ pairs = 0
    /\ image = NoImage /\ mapped = FALSE
    /\ install = Idle /\ start = Idle
    /\ promised = FALSE /\ cut = FALSE /\ left = FALSE

-----------------------------------------------------------------------------
\* osk install.  generate_self_signed_cert writes the key, then the
\* certificate, unless both files are there.
Install(p) ==
    /\ install.at = "idle"
    /\ IF cert # 0 /\ key # 0
          THEN /\ install' = [at |-> "volume", phrase |-> p]
               /\ UNCHANGED <<key, pairs>>
          ELSE /\ pairs < MaxPairs
               /\ pairs' = pairs + 1 /\ key' = pairs + 1
               /\ install' = [at |-> "cert", phrase |-> p]
    /\ UNCHANGED <<config, tools, cert, image, mapped, start, promised, cut, left>>

WriteCert ==
    /\ install.at = "cert"
    /\ cert' = pairs
    /\ install' = [install EXCEPT !.at = "volume"]
    /\ UNCHANGED <<config, tools, key, pairs, image, mapped, start, promised, cut, left>>

\* create_luks_volume.  An image that exists is taken as it is, whatever
\* passphrase was just typed and confirmed.
Truncate ==
    /\ install.at = "volume"
    /\ IF config.luks /\ image.state = "none"
          THEN /\ image' = [state |-> "blank", phrase |-> "none"]
               /\ install' = [install EXCEPT !.at = "format"]
          ELSE /\ install' = Idle
               /\ UNCHANGED image
    /\ UNCHANGED <<config, tools, key, cert, pairs, mapped, start, promised, cut, left>>

Format ==
    /\ install.at = "format"
    /\ image' = [state |-> "formatted", phrase |-> install.phrase]
    /\ install' = [install EXCEPT !.at = "open"]
    /\ UNCHANGED <<config, tools, key, cert, pairs, mapped, start, promised, cut, left>>

OpenMapper ==
    /\ install.at = "open" /\ ~mapped
    /\ mapped' = TRUE
    /\ install' = [install EXCEPT !.at = "mkfs"]
    /\ UNCHANGED <<config, tools, key, cert, pairs, image, start, promised, cut, left>>

MakeFilesystem ==
    /\ install.at = "mkfs"
    /\ image' = [image EXCEPT !.state = "ready"]
    /\ install' = [install EXCEPT !.at = "close"]
    /\ UNCHANGED <<config, tools, key, cert, pairs, mapped, start, promised, cut, left>>

\* Mutant: the new volume is left open.
CloseMapper_Left ==
    /\ install.at = "close"
    /\ install' = Idle
    /\ UNCHANGED <<config, host, pairs, start, promised, cut, left>>

CloseMapper ==
    /\ install.at = "close"
    /\ mapped' = FALSE
    /\ install' = Idle
    /\ UNCHANGED <<config, tools, key, cert, pairs, image, start, promised, cut, left>>

\* Nothing is undone: an image half made stays, and the mapper stays open.  Run
\* again, osk install takes the image as it is.
Spoilt == install.at \in {"format", "open", "mkfs"} \/ (install.at = "cert" /\ cert # 0)
Interrupt ==
    /\ install.at # "idle"
    /\ install' = Idle
    /\ cut' = (cut \/ Spoilt)
    /\ left' = (left \/ install.at \in {"mkfs", "close"})
    /\ UNCHANGED <<config, host, pairs, start, promised>>

-----------------------------------------------------------------------------
\* install_drill_report says ready.
Drill ==
    /\ Installed /\ HasCompose /\ ~promised
    /\ promised' = TRUE
    /\ UNCHANGED <<config, host, pairs, install, start, cut, left>>

-----------------------------------------------------------------------------
\* osk start, where the hub is not running
Start(p) ==
    /\ start.at = "idle"
    /\ start' = [at |-> "check", phrase |-> p]
    /\ UNCHANGED <<config, host, pairs, install, promised, cut, left>>

Goes(from, to) ==
    /\ start.at = from
    /\ start' = IF to = "idle" THEN Idle ELSE [start EXCEPT !.at = to]
    /\ UNCHANGED <<config, tools, key, cert, pairs, image, install, promised, cut>>

Untouched == UNCHANGED <<mapped, left>>
Remains == mapped' = mapped /\ left' = (left \/ mapped)
Check == Untouched /\ Goes("check", IF Installed THEN "services" ELSE "idle")
Services == Untouched /\ Goes("services", IF HasCompose THEN "database" ELSE "idle")
Database == Untouched /\ Goes("database", "volume")

\* open_luks, which asks nothing of a mapper that is open.  A volume without a
\* filesystem is opened and cannot be mounted; nothing closes it.
Fits(p) == config.luks /\ image.state \in {"formatted", "ready"} /\ image.phrase = p
Opens == config.luks => ~mapped /\ image.state = "ready" /\ image.phrase = start.phrase
OpenVolume ==
    /\ mapped' = (mapped \/ Fits(start.phrase))
    /\ left' = (left \/ (~Opens /\ ~mapped /\ Fits(start.phrase)))
    /\ Goes("volume", IF Opens THEN "tls" ELSE "idle")

\* close_luks: what umount and cryptsetup return is not looked at.
Close == (mapped' = FALSE /\ left' = FALSE) \/ Remains

\* uvicorn loads the pair; the shutdown closes the volume.
Paired == key # 0 /\ cert = key
Serve ==
    IF Paired THEN Untouched /\ Goes("tls", "serving")
              ELSE Close /\ Goes("tls", "idle")
Stop == Close /\ Goes("serving", "idle")

\* What a start runs fails for a reason of its own: docker compose up, the
\* thirty seconds of wait_for_database, the tmpfs, cryptsetup, mount or keyctl
\* after it, the pool or the port.
Breaks ==
    \/ \E at \in {"services", "database"} : Goes(at, "idle") /\ Untouched
    \/ /\ Goes("volume", "idle")
       /\ \/ Untouched
          \/ ~mapped /\ Fits(start.phrase) /\ mapped' = TRUE /\ left' = TRUE
    \/ Goes("tls", "idle") /\ Close

\* A start or a hub dies, of a SIGTERM of osk stop among others: its finally
\* block does not run.
Crash == \E at \in {"check", "services", "database", "volume", "tls", "serving"} :
    /\ Goes(at, "idle")
    /\ IF at \in {"tls", "serving"} THEN Remains ELSE Untouched

-----------------------------------------------------------------------------
\* osk evidence unlock; no command locks the volume again.
Unlock(p) ==
    /\ ~mapped /\ Fits(p)
    /\ mapped' = TRUE /\ left' = TRUE
    /\ UNCHANGED <<config, tools, key, cert, pairs, image, install, start, promised, cut>>

\* The operator closes the mapper by hand, or the laptop is restarted.
Release ==
    /\ mapped /\ install.at = "idle" /\ start.at = "idle"
    /\ mapped' = FALSE /\ left' = FALSE
    /\ UNCHANGED <<config, tools, key, cert, pairs, image, install, start, promised, cut>>

-----------------------------------------------------------------------------
\* The operator installs or removes a tool, or loses a file.
Removed == promised' = FALSE /\ UNCHANGED <<config, pairs, install, start>>

ChangeTools ==
    /\ \E t \in {"ffmpeg", "compose"} : tools' \in {tools \cup {t}, tools \ {t}} \ {tools}
    /\ Removed /\ UNCHANGED <<key, cert, image, mapped, cut, left>>

LoseFile ==
    /\ \/ key # 0 /\ key' = 0 /\ cert' = cert
       \/ cert # 0 /\ cert' = 0 /\ key' = key
    /\ Removed /\ UNCHANGED <<tools, image, mapped, cut, left>>

\* osk evidence destroy, with no hub and no install under way
Destroy ==
    /\ config.luks /\ image.state # "none"
    /\ install.at = "idle" /\ start.at = "idle"
    /\ image' = NoImage /\ Close
    /\ cut' = (cut /\ cert # key)
    /\ Removed /\ UNCHANGED <<tools, key, cert>>

Next ==
    \/ \E p \in Phrases : Install(p) \/ Start(p)
    \/ WriteCert \/ Truncate \/ Format \/ OpenMapper \/ MakeFilesystem \/ CloseMapper
    \/ Interrupt \/ Drill
    \/ Check \/ Services \/ Database \/ OpenVolume \/ Serve \/ Stop \/ Breaks \/ Crash
    \/ Release \/ \E p \in Phrases : Unlock(p)
    \/ ChangeTools \/ LoseFile \/ Destroy

Spec == Init /\ [][Next]_vars

-----------------------------------------------------------------------------
\* A host that install_drill_report calls ready is not refused by the next
\* start: given the volume's passphrase, one that does not serve has met a
\* command that failed for its own reasons (Breaks), a mapper that something
\* left open, an install that was cut short at its image or its pair, or one
\* under way.  Between the drill and the start are installs, repeated and
\* interrupted, with whatever passphrases, and other starts; nothing was taken
\* away.  An install interrupted anywhere else spoils nothing.
ReadyStarts ==
    [][/\ Check \/ Services \/ Database \/ OpenVolume \/ Serve
       /\ start'.at = "idle" /\ promised
       /\ config.luks => start.phrase = image.phrase
       => cut \/ left \/ install.at # "idle"]_vars
=============================================================================
