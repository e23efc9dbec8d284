---------------------------- MODULE PairingUrls ----------------------------
(***************************************************************************)
(* refresh_pairing_server_url: each start of the backend (and the          *)
(* installer) works out the URLs under which a phone can reach it, and     *)
(* writes them to the pairing file next to those of earlier starts that    *)
(* still make sense.  Detection fails when Tailscale or the network is     *)
(* down, and comes back at a later start.                                  *)
(***************************************************************************)
EXTENDS Selection, Functions

CONSTANTS
    LanUrls,      \* private IPv4 addresses the server may have on a network
    PublicUrls,   \* public addresses and names
    MaxStarts     \* bound: starts of the backend and the installer

TailnetUrls == {"tailnet_name", "tailnet_address"}
Loopback == "loopback"
NoUrl == ""

ASSUME UrlAssumption ==
    /\ LanUrls \cap PublicUrls = {}
    /\ (LanUrls \cup PublicUrls) \cap (TailnetUrls \cup {Loopback, NoUrl, "exposed"}) = {}

\* server_url_matches_mode and is_public_server_url, by kind of URL
ModeUrls(mode) == CASE mode = "tailscale" -> TailnetUrls [] mode = "wifi" -> LanUrls [] mode = "local" -> {}

Inputs == [mode : {"tailscale", "wifi", "local"},        \* PHONE_ACCESS_MODE
           explicit : PublicUrls \cup {NoUrl},           \* PUBLIC_SERVER_URL
           host : {"exposed", Loopback} \cup LanUrls \cup PublicUrls,
           tailnet : {<<>>, <<"tailnet_name", "tailnet_address">>},  \* what Tailscale tells
           lan : LanUrls \cup {NoUrl}]

VARIABLES
    server,    \* server_url and server_urls of the pairing file
    asked,     \* the inputs of the latest start
    before,    \* history: what the file held before that start
    starts     \* starts so far

urlVars == <<server, asked, before, starts>>

NothingAdvertised == [url |-> NoUrl, urls |-> <<>>]

---------------------------------------------------------------------------
(* The algorithm.                                                          *)

\* dedupe_server_urls: the first of each, without the empty ones
FirstPlaces(urls) == {i \in DOMAIN urls : urls[i] # NoUrl /\ \A j \in 1 .. (i - 1) : urls[j] # urls[i]}
Dedupe(urls) == Picked(urls, FirstPlaces(urls))

KeepOnly(urls, S) == Only(urls, S)

\* detect_server_urls
Detected(in) ==
    LET found == IF in.mode = "local" \/ in.host = Loopback THEN <<Loopback>>
                 ELSE IF in.host # "exposed" THEN <<in.host>>
                 ELSE IF in.mode = "wifi" THEN <<IF in.lan # NoUrl THEN in.lan ELSE Loopback>>
                 ELSE IF in.tailnet # <<>> THEN in.tailnet
                 ELSE <<Loopback>>
    IN Dedupe(<<in.explicit>> \o found)

Preferred(in, old) ==
    IF in.explicit # NoUrl THEN <<in.explicit>>
    ELSE IF in.mode = "tailscale" THEN KeepOnly(old.urls, PublicUrls)
    ELSE <<>>

PreviousBug(in, old) == Dedupe(KeepOnly(KeepOnly(old.urls, Range(old.urls) \ {old.url}) \o <<old.url>>, ModeUrls(in.mode)))
\* _matching_previous_server_urls: the current one first
Previous(in, old) == Dedupe(KeepOnly(<<old.url>> \o old.urls, ModeUrls(in.mode)))

\* refresh_pairing_server_url up to the comparison with what the file holds
NextUrls(in, old) ==
    LET all == Detected(in)
        detected == IF in.mode = "tailscale" THEN KeepOnly(all, TailnetUrls \cup PublicUrls) ELSE all
        fallsBack == /\ in.explicit = NoUrl
                     /\ in.mode # "local"
                     /\ KeepOnly(detected, ModeUrls(in.mode)) = <<>>
        next == Dedupe(Preferred(in, old) \o (IF fallsBack THEN Previous(in, old) ELSE <<>>) \o detected)
    IN IF next = <<>> THEN Dedupe(<<old.url>>) ELSE next

Readvertised(in, old) ==
    LET next == NextUrls(in, old) IN IF next = <<>> THEN old ELSE [url |-> Head(next), urls |-> next]

---------------------------------------------------------------------------
UrlsInit ==
    /\ server = NothingAdvertised
    /\ asked = [mode |-> "tailscale", explicit |-> NoUrl, host |-> "exposed", tailnet |-> <<>>, lan |-> NoUrl]
    /\ before = NothingAdvertised
    /\ starts = 0

Refresh(in, old) ==
    /\ starts < MaxStarts
    /\ starts' = starts + 1
    /\ asked' = in
    /\ before' = old
    /\ server' = Readvertised(in, old)

Start == \E in \in Inputs : Refresh(in, server)

\* install_backend.sh writes a new file and refreshes it.
Install == \E in \in Inputs : Refresh(in, NothingAdvertised)

UrlsNext == Start \/ Install
UrlsSpec == UrlsInit /\ [][UrlsNext]_urlVars

---------------------------------------------------------------------------
(* Properties.                                                             *)

\* The URL that phones are told first suits the mode of access, whatever
\* modes earlier starts had: it is one of the mode, or the configured one or,
\* with Tailscale, a public one of before.  Another one only comes first when
\* the start neither detected a URL of the mode nor knew one.
FirstUrlSuitsMode ==
    starts > 0 /\ server # NothingAdvertised =>
        \/ server.url \in ModeUrls(asked.mode) \cup {asked.explicit}
        \/ asked.mode = "local" /\ asked.explicit = NoUrl /\ server.urls = <<Loopback>>
        \/ asked.mode = "tailscale" /\ server.url \in PublicUrls
        \/ Range(Detected(asked) \o before.urls) \cap ModeUrls(asked.mode) = {}

\* While detection fails, the URLs of the mode that phones have been given
\* stay, through any number of starts.
KnownUrlsSurvive ==
    starts > 0 /\ asked.explicit = NoUrl /\ Range(Detected(asked)) \cap ModeUrls(asked.mode) = {} =>
        Range(before.urls) \cap ModeUrls(asked.mode) \subseteq Range(server.urls)

\* A restart in the same surroundings writes the same URLs in the same order,
\* except where the backend listens on a public address of its own while
\* Tailscale is down: that address moves to the front at the next start.
RestartIsStable ==
    starts > 0 /\ (asked.mode = "tailscale" => asked.host \notin PublicUrls) =>
        Readvertised(asked, server) = server

\* Through any sequence of starts the URLs suit the mode, those that phones
\* rely on stay, and a restart alone changes nothing.
UrlsAreSteady == FirstUrlSuitsMode /\ KnownUrlsSurvive /\ RestartIsStable

=============================================================================
