--------------------------- MODULE MCJobOrchestrator ---------------------------
(* Instances of JobOrchestrator for TLC. *)
EXTENDS JobOrchestrator, TLC

CONSTANTS m, h, d, p, v, e

\* A magnet and a Hydra download of one game: they compete for the entry, for
\* the one slot and, once resolved, for the same kind of transport.
TransferJobs == {m, h}
TransferEntries == (m :> e @@ h :> e)
TransferLinks == (m :> "magnet" @@ h :> "hydra")

\* One magnet download.
TorrentJobs == {m}
TorrentEntries == (m :> e)
TorrentLinks == (m :> "magnet")

\* The jobs libtorrent and TorBox have no part in, all of one game: a direct
\* download, a plugin-owned download and a library move.
DirectJobs == {d, p, v}
DirectEntries == (d :> e @@ p :> e @@ v :> e)
DirectLinks == (d :> "http" @@ p :> "plugin" @@ v :> "move")

================================================================================
