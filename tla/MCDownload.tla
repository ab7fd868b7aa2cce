----------------------------- MODULE MCDownload -----------------------------
(* Instances of Download for TLC. *)
EXTENDS Download

CONSTANTS Other, visa, apply

Link(https, host, path) == [https |-> https, host |-> host, path |-> path]

\* Two links with the slug "visa", two with "visa-apply", the front page of
\* another site, and two that are refused.
Visa == Link(TRUE, Www, <<<<visa>>>>)
VisaPrint == Link(TRUE, Www, <<<<visa>>, <<PrintWord>>>>)
VisaApply == Link(TRUE, Www, <<<<visa>>, <<apply>>>>)
VisaHyphenApply == Link(TRUE, Www, <<<<visa, apply>>>>)
FrontPage == Link(TRUE, Other, <<>>)
Insecure == Link(FALSE, Www, <<<<visa>>>>)
NoSlug == Link(TRUE, Www, <<<<PrintWord>>>>)

MCLinks == {Visa, VisaPrint, VisaApply, VisaHyphenApply, FrontPage, Insecure, NoSlug}
MCLinkLists ==
  {<<Visa, VisaPrint>>, <<VisaPrint, VisaApply>>, <<VisaHyphenApply, Insecure, Visa>>,
   <<NoSlug, FrontPage>>}
=============================================================================
