------------------------------ MODULE ApiClients ------------------------------
(***************************************************************************)
(* The clients of qBittorrent, OpenSubtitles, Plex and Jellyfin: built     *)
(* from the settings on first use, cached, dropped when a setting changes, *)
(* and, for the two that log in, logged in again when a session expired.   *)
(* settings.Service sends each changed key to its subscribers through      *)
(* bounded channels; the server's subscriber invalidates the provider.     *)
(* A behaviour is about one provider, chosen in the initial state.         *)
(***************************************************************************)
EXTENDS Naturals, Sequences, FiniteSets

CONSTANTS
  ApCalls,      \* requests of workers and handlers that need the client, each made once
  ApWriters,    \* requests that save one setting, each made once
  ApKeys,       \* the settings a client is built from, in the order they are read
  ApBuffer,     \* capacity of the subscriber's channel (16 in the code)
  ApMaxExpiries,\* sessions the server ends
  ApFaults      \* {"login"}: a login may fail

ASSUME ApiClientsAssumption ==
  /\ IsFiniteSet(ApCalls) /\ IsFiniteSet(ApWriters) /\ "nobody" \notin ApCalls
  /\ ApKeys \in Seq(STRING) /\ Len(ApKeys) > 0
  /\ ApBuffer \in Nat \ {0} /\ ApMaxExpiries \in Nat
  /\ ApFaults \subseteq {"login"}

VARIABLES
  apKind,     \* "qbittorrent": one mutex around each request; "opensubtitles": around logins
  apSetting,  \* version of each setting, 0 when it was never saved
  apWriter,   \* settings.Update: the key a request has saved and not announced yet
  apChannel,  \* keys announced to the subscriber
  apLost,     \* the keys whose announcement found the channel full
  apHandling, \* key the subscriber is handling
  apCached,   \* Provider.client: 0, or the index of a client
  apClient,   \* the clients built so far: settings used, session, holder of the mutex
  apCall,     \* the requests
  apServer    \* the service at the other end: sessions opened, those alive, expiries

apVars == <<apKind, apSetting, apWriter, apChannel, apLost, apHandling, apCached, apClient,
            apCall, apServer>>

ApKeySet == {ApKeys[i] : i \in DOMAIN ApKeys}
ApNobody == "nobody"

\* read: the settings read so far for a new client; own: the session its own second login
\* opened; sent: the session of its last request; shared: another login of the client was
\* under way, or followed, before the second request was sent.
ApNew == [pc |-> "idle", client |-> 0, read |-> <<>>, own |-> 0, sent |-> 0, shared |-> FALSE]

ApTypeOK ==
  /\ apKind \in {"qbittorrent", "opensubtitles"}
  /\ apSetting \in [ApKeySet -> Nat]
  /\ apChannel \in Seq(ApKeySet) /\ Len(apChannel) <= ApBuffer
  /\ apCached \in 0..Len(apClient)
  /\ apServer.alive \subseteq 1..apServer.opened

ApInit ==
  /\ apKind \in {"qbittorrent", "opensubtitles"}
  /\ apSetting \in [ApKeySet -> {0, 1}]
  /\ apWriter = [w \in ApWriters |-> [pc |-> "idle", key |-> ApKeys[1]]]
  /\ apChannel = <<>> /\ apLost = {} /\ apHandling = {}
  /\ apCached = 0 /\ apClient = <<>>
  /\ apCall = [c \in ApCalls |-> ApNew]
  /\ apServer = [opened |-> 0, alive |-> {}, expired |-> 0]

ApSet(c, r) == apCall' = [apCall EXCEPT ![c] = r]

-----------------------------------------------------------------------------
(* Saving a setting, and hearing of it. *)

\* settings.Update: SetSetting; a masked or refused value is not saved and changes nothing.
ApSave(w) ==
  /\ apWriter[w].pc = "idle"
  /\ \E k \in ApKeySet :
       /\ apWriter' = [apWriter EXCEPT ![w] = [pc |-> "saved", key |-> k]]
       /\ apSetting' = [apSetting EXCEPT ![k] = @ + 1]
  /\ UNCHANGED <<apKind, apChannel, apLost, apHandling, apCached, apClient, apCall, apServer>>

\* A full channel is skipped.
ApNotify(w) ==
  /\ apWriter[w].pc = "saved"
  /\ apWriter' = [apWriter EXCEPT ![w].pc = "done"]
  /\ IF Len(apChannel) < ApBuffer
     THEN apChannel' = Append(apChannel, apWriter[w].key) /\ UNCHANGED apLost
     ELSE apLost' = apLost \cup {apWriter[w].key} /\ UNCHANGED apChannel
  /\ UNCHANGED <<apKind, apSetting, apHandling, apCached, apClient, apCall, apServer>>

ApHear ==
  /\ apHandling = {} /\ apChannel # <<>>
  /\ apHandling' = {Head(apChannel)} /\ apChannel' = Tail(apChannel)
  /\ UNCHANGED <<apKind, apSetting, apWriter, apLost, apCached, apClient, apCall, apServer>>

\* The provider's mutex is held by the call that reads the settings.
ApProviderFree == \A c \in ApCalls : apCall[c].pc # "read"

\* Provider.Invalidate, were it not to wait for a call that reads the settings.
ApInvalidateAnyTime ==
  /\ apHandling # {}
  /\ apHandling' = {} /\ apCached' = 0
  /\ UNCHANGED <<apKind, apSetting, apWriter, apChannel, apLost, apClient, apCall, apServer>>

\* Provider.Invalidate: the calls that hold the old client keep it.
ApInvalidate ==
  /\ apHandling # {} /\ ApProviderFree
  /\ apHandling' = {} /\ apCached' = 0
  /\ UNCHANGED <<apKind, apSetting, apWriter, apChannel, apLost, apClient, apCall, apServer>>

-----------------------------------------------------------------------------
(* Provider.Client *)

ApGetClient(c) ==
  /\ apCall[c].pc = "idle" /\ ApProviderFree
  /\ ApSet(c, IF apCached # 0 THEN [apCall[c] EXCEPT !.pc = "ensure", !.client = apCached]
                              ELSE [apCall[c] EXCEPT !.pc = "read"])
  /\ UNCHANGED <<apKind, apSetting, apWriter, apChannel, apLost, apHandling, apCached,
                 apClient, apServer>>

\* settings.Get: a key that was never saved has no fallback, and nothing is cached.
ApReadSetting(c) ==
  /\ apCall[c].pc = "read" /\ Len(apCall[c].read) < Len(ApKeys)
  /\ LET v == apSetting[ApKeys[Len(apCall[c].read) + 1]]
     IN  ApSet(c, IF v = 0 THEN [apCall[c] EXCEPT !.pc = "unconfigured"]
                           ELSE [apCall[c] EXCEPT !.read = Append(@, v)])
  /\ UNCHANGED <<apKind, apSetting, apWriter, apChannel, apLost, apHandling, apCached,
                 apClient, apServer>>

\* NewClient, cached for the calls to come.
ApCacheClient(c) ==
  /\ apCall[c].pc = "read" /\ Len(apCall[c].read) = Len(ApKeys)
  /\ apClient' = Append(apClient, [made |-> apCall[c].read, session |-> 0, holder |-> ApNobody])
  /\ apCached' = Len(apClient) + 1
  /\ ApSet(c, [apCall[c] EXCEPT !.pc = "ensure", !.client = Len(apClient) + 1])
  /\ UNCHANGED <<apKind, apSetting, apWriter, apChannel, apLost, apHandling, apServer>>

-----------------------------------------------------------------------------
(* The session of a client. *)

ApMine(c) == apClient[apCall[c].client]
ApOthers(c) == {d \in ApCalls \ {c} : apCall[d].client = apCall[c].client}
ApClientFree(c) == ApMine(c).holder = ApNobody

\* What a login of c means for the calls that have logged in and not resent yet.
ApShare(c) == [d \in ApCalls |->
                 IF d \in ApOthers(c) /\ apCall[d].pc = "resend"
                 THEN [apCall[d] EXCEPT !.shared = TRUE] ELSE apCall[d]]

\* authenticate, answered with a session.
ApOpens(session) ==
  apServer' = [apServer EXCEPT !.opened = session, !.alive = @ \cup {session}]

ApKeepAllButCalls == UNCHANGED <<apKind, apSetting, apWriter, apChannel, apLost, apHandling,
                                 apCached>>

\* ensureAuthenticated: the first call of a client logs in, under the mutex.
ApEnsure(c) ==
  /\ apCall[c].pc = "ensure" /\ ApClientFree(c)
  /\ IF ApMine(c).session # 0
     THEN /\ ApSet(c, [apCall[c] EXCEPT !.pc = "send"]) /\ UNCHANGED <<apClient, apServer>>
     ELSE LET s == apServer.opened + 1
          IN  /\ apClient' = [apClient EXCEPT ![apCall[c].client].session = s]
              /\ apCall' = [ApShare(c) EXCEPT ![c].pc = "send"]
              /\ ApOpens(s)
  /\ ApKeepAllButCalls

ApEnsureFails(c) ==
  /\ "login" \in ApFaults
  /\ apCall[c].pc = "ensure" /\ ApClientFree(c) /\ ApMine(c).session = 0
  /\ ApSet(c, [apCall[c] EXCEPT !.pc = "login_failed"])
  /\ ApKeepAllButCalls /\ UNCHANGED <<apClient, apServer>>

\* qBittorrent's client takes the mutex for the request and what may follow it; the one of
\* OpenSubtitles sends without it.
ApHolds == apKind = "qbittorrent"

\* doRequest: answered, or 403 or 401 for a session that is not alive.
ApSend(c) ==
  /\ apCall[c].pc = "send"
  /\ ApHolds => ApClientFree(c)
  /\ LET alive == ApMine(c).session \in apServer.alive
     IN  /\ ApSet(c, [apCall[c] EXCEPT !.pc = IF alive THEN "answered" ELSE "expired",
                                       !.sent = ApMine(c).session])
         /\ apClient' = IF alive \/ ~ApHolds THEN apClient
                        ELSE [apClient EXCEPT ![apCall[c].client].holder = c]
  /\ ApKeepAllButCalls /\ UNCHANGED apServer

\* The session is forgotten before the login that replaces it.
ApForget(c) ==
  /\ apCall[c].pc = "expired"
  /\ ApMine(c).holder \in {c, ApNobody}
  /\ apClient' = [apClient EXCEPT ![apCall[c].client] =
                    [@ EXCEPT !.session = 0, !.holder = c]]
  /\ apCall' = [ApShare(c) EXCEPT ![c].pc = "login"]
  /\ ApKeepAllButCalls /\ UNCHANGED apServer

\* ApLogin, were the mutex released before the request is sent again.
ApLoginReleases(c) ==
  /\ apCall[c].pc = "login" /\ ApMine(c).holder = c
  /\ LET s == apServer.opened + 1
     IN  /\ apClient' = [apClient EXCEPT ![apCall[c].client] =
                           [@ EXCEPT !.session = s, !.holder = ApNobody]]
         /\ apCall' = [ApShare(c) EXCEPT ![c] = [@ EXCEPT !.pc = "resend", !.own = s]]
         /\ ApOpens(s)
  /\ ApKeepAllButCalls

ApLogin(c) ==
  /\ apCall[c].pc = "login" /\ ApMine(c).holder = c
  /\ LET s == apServer.opened + 1
     IN  /\ apClient' = [apClient EXCEPT ![apCall[c].client] =
                           [@ EXCEPT !.session = s, !.holder = IF ApHolds THEN c ELSE ApNobody]]
         /\ apCall' = [ApShare(c) EXCEPT ![c] = [@ EXCEPT !.pc = "resend", !.own = s]]
         /\ ApOpens(s)
  /\ ApKeepAllButCalls

\* The client is left without a session: the next call logs in.
ApLoginFails(c) ==
  /\ "login" \in ApFaults
  /\ apCall[c].pc = "login" /\ ApMine(c).holder = c
  /\ apClient' = [apClient EXCEPT ![apCall[c].client].holder = ApNobody]
  /\ ApSet(c, [apCall[c] EXCEPT !.pc = "login_failed"])
  /\ ApKeepAllButCalls /\ UNCHANGED apServer

\* The request once more; there is no third time.
ApResend(c) ==
  /\ apCall[c].pc = "resend"
  /\ ApSet(c, [apCall[c] EXCEPT
                 !.pc = IF ApMine(c).session \in apServer.alive THEN "answered" ELSE "refused",
                 !.sent = ApMine(c).session])
  /\ apClient' = IF ApHolds THEN [apClient EXCEPT ![apCall[c].client].holder = ApNobody]
                            ELSE apClient
  /\ ApKeepAllButCalls /\ UNCHANGED apServer

\* The service ends a session.
ApExpire ==
  /\ apServer.expired < ApMaxExpiries
  /\ \E s \in apServer.alive :
       apServer' = [apServer EXCEPT !.alive = @ \ {s}, !.expired = @ + 1]
  /\ ApKeepAllButCalls /\ UNCHANGED <<apClient, apCall>>

-----------------------------------------------------------------------------

ApNext ==
  \/ \E w \in ApWriters : ApSave(w) \/ ApNotify(w)
  \/ ApHear \/ ApInvalidate \/ ApExpire
  \/ \E c \in ApCalls :
       \/ ApGetClient(c) \/ ApReadSetting(c) \/ ApCacheClient(c)
       \/ ApEnsure(c) \/ ApEnsureFails(c) \/ ApSend(c) \/ ApForget(c)
       \/ ApLogin(c) \/ ApLoginFails(c) \/ ApResend(c)

-----------------------------------------------------------------------------

\* A change of k that the provider has yet to be told of, or never will be.
ApUntold(k) ==
  \/ apChannel # <<>> \/ apHandling # {}
  \/ \E w \in ApWriters : apWriter[w].pc = "saved" /\ apWriter[w].key = k
  \/ k \in apLost

\* The cached client was built from the settings as they are, or the provider is about to be
\* told otherwise; only an announcement lost to a full channel leaves it stale.  This is about
\* the order of saving, announcing and invalidating, and the mutex between Client and
\* Invalidate: a client built from settings read before a change must not be cached after the
\* invalidation the change led to.
ClientCurrentOrTold ==
  apCached # 0 =>
    \A i \in DOMAIN ApKeys :
      apClient[apCached].made[i] # apSetting[ApKeys[i]] => ApUntold(ApKeys[i])

\* A request that logged in again is refused only if the service ended the new session; for
\* OpenSubtitles, whose requests read the session without the mutex, or if another call was
\* replacing it.  This is about sending, logging in and sending again as one critical section.
RefusedForExpiryOnly ==
  \A c \in ApCalls : apCall[c].pc = "refused" =>
    \/ apCall[c].sent = apCall[c].own /\ apCall[c].own \notin apServer.alive
    \/ apKind = "opensubtitles" /\ apCall[c].shared

\* A request is made with the settings as they are, and answered while the service answers.
ClientsServe == ClientCurrentOrTold /\ RefusedForExpiryOnly
=============================================================================
