--------------------------- MODULE AppSignatures ----------------------------
(***************************************************************************)
(* sniToAppType: which application a host name stands for.  A name is the  *)
(* set of signatures that occur somewhere in it, in any case of letters;   *)
(* one signature may overlap another ("netflix.com" has "netflix" and      *)
(* "x.com").  The first entry of the table that occurs decides.            *)
(***************************************************************************)
EXTENDS Integers, Sequences

\* APP_SIGNATURES, then the tests behind its loop.  Entries that follow one
\* another for the same application are put together.
AppTable == <<
  [app |-> "GOOGLE",
   signatures |-> {"google", "gstatic", "googleapis", "ggpht", "gvt1"}],
  [app |-> "YOUTUBE",
   signatures |-> {"youtube", "ytimg", "youtu.be", "yt3.ggpht"}],
  [app |-> "FACEBOOK",
   signatures |-> {"facebook", "fbcdn", "fb.com", "fbsbx", "meta.com"}],
  [app |-> "INSTAGRAM", signatures |-> {"instagram", "cdninstagram"}],
  [app |-> "WHATSAPP", signatures |-> {"whatsapp", "wa.me"}],
  [app |-> "TWITTER", signatures |-> {"twitter", "twimg", "x.com", "t.co"}],
  [app |-> "NETFLIX", signatures |-> {"netflix", "nflxvideo", "nflximg"}],
  [app |-> "AMAZON", signatures |-> {"amazon", "amazonaws", "cloudfront", "aws"}],
  [app |-> "MICROSOFT",
   signatures |-> {"microsoft", "msn.com", "office", "azure", "live.com",
                   "outlook", "bing"}],
  [app |-> "APPLE", signatures |-> {"apple", "icloud", "itunes"}],
  [app |-> "TELEGRAM", signatures |-> {"telegram", "t.me"}],
  [app |-> "TIKTOK", signatures |-> {"tiktok", "bytedance"}],
  [app |-> "SPOTIFY", signatures |-> {"spotify", "scdn.co"}],
  [app |-> "ZOOM", signatures |-> {"zoom"}],
  [app |-> "DISCORD", signatures |-> {"discord"}],
  [app |-> "GITHUB", signatures |-> {"github"}],
  [app |-> "CLOUDFLARE", signatures |-> {"cloudflare", "cf-"}]>>

Signatures == UNION {AppTable[i].signatures : i \in DOMAIN AppTable}

\* The entries of the table that occur in a name.
Matching(name) == {i \in DOMAIN AppTable : AppTable[i].signatures \cap name # {}}

\* Faulty form of SniToAppType: a signature has to be the whole name.
SniToAppTypeWhole(name) ==
  LET found == {i \in DOMAIN AppTable : \E s \in AppTable[i].signatures : name = {s}}
  IN  IF found = {} THEN "HTTPS" ELSE AppTable[CHOOSE i \in found : TRUE].app

\* sniToAppType of a name that is not empty
SniToAppType(name) ==
  LET found == Matching(name)
  IN  IF found = {} THEN "HTTPS"
      ELSE AppTable[CHOOSE i \in found : \A j \in found : i <= j].app

\* The applications whose signatures occur in a name.
AppsIn(name) == {AppTable[i].app : i \in Matching(name)}
=============================================================================
