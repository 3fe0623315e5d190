----------------------------- MODULE MCCatalog ------------------------------
(* Two names, links that say one of them or both, a small folder of the    *)
(* host and archives in which a link comes before or after what it names.  *)
EXTENDS Commands

CONSTANTS a, b

MCLinkTexts == {<<b>>, <<a, b>>}

MCHostFolders ==
    {<<a>> :> "dir" @@ <<a, b>> :> "file" @@ <<b>> :> "file",
     <<a>> :> "dir" @@ <<a, b>> :> "file",
     <<b>> :> "file"}

MCPrograms == {<<b>>}

MCArchives ==
    {<<Entry(<<a>>, "dir", <<>>), Entry(<<a, b>>, "file", <<>>)>>,
     <<Entry(<<b>>, "file", <<>>), Entry(<<a>>, "link", <<b>>)>>,
     <<Entry(<<a>>, "link", <<b>>)>>}
=============================================================================
