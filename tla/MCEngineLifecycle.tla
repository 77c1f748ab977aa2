------------------------- MODULE MCEngineLifecycle -------------------------
EXTENDS EngineLifecycle

Full == [api |-> 14, families |-> <<[graphics |-> FALSE, present |-> TRUE],
                                    [graphics |-> TRUE, present |-> TRUE]>>,
         enumerable |-> TRUE, extensions |-> {"swapchain"}, features |-> RequiredFeatures,
         depthFormats |-> {"D32Sfloat", "D24UnormS8Uint"},
         colourSamples |-> {1, 2, 4, 8}, depthSamples |-> {1, 2, 4}]

Surface == [formats |-> <<"R8G8B8A8Unorm", "B8G8R8A8Srgb">>, modes |-> {"fifo", "mailbox"},
            minCount |-> 2, maxCount |-> 0, minExtent |-> <<1, 1>>, maxExtent |-> <<4, 4>>,
            usages |-> {"colour", "transferSource"}]

\* A desktop, development build: the window has been resized by the time a new
\* chain is made.
Desktop ==
    [dev |-> TRUE, windowExtensions |-> {"surface"}, instanceExtensions |-> {"surface", "debugUtils"},
     layers |-> {"validation"}, devices |-> <<Full>>,
     memory |-> <<{"deviceLocal"}, {"hostVisible"}, {"hostVisible", "hostCoherent"}>>,
     bufferTypes |-> {1, 2, 3}, imageTypes |-> {1}, linearBlit |-> TRUE, texture |-> <<5, 2>>,
     surface |-> Surface,
     surfaces |-> {[Surface EXCEPT !.minExtent = <<2, 3>>, !.maxExtent = <<2, 3>>]}]

\* A shipping build beside a device nobody can ask, on a surface with two
\* images at most, a wide format and nothing but the required usage.
Plain ==
    LET surface == [formats |-> <<"R16G16B16A16Sfloat">>, modes |-> {"fifo"}, minCount |-> 2,
                    maxCount |-> 2, minExtent |-> <<2, 2>>, maxExtent |-> <<2, 2>>,
                    usages |-> {"colour"}] IN
    [Desktop EXCEPT !.dev = FALSE, !.layers = {}, !.texture = <<1, 1>>,
        !.devices = <<[Full EXCEPT !.enumerable = FALSE, !.extensions = {}],
                      [Full EXCEPT !.depthFormats = {"D24UnormS8Uint"}, !.colourSamples = {1}]>>,
        !.surface = surface, !.surfaces = {surface, [surface EXCEPT !.usages = {"colour", "transferSource"}]}]

\* Machines that cannot run the renderer, each for a reason of its own.
Unfit ==
    {[Desktop EXCEPT !.layers = {}],
     [Desktop EXCEPT !.devices = <<[Full EXCEPT !.families = <<[graphics |-> TRUE, present |-> FALSE]>>], Full>>],
     [Desktop EXCEPT !.devices = <<[Full EXCEPT !.depthFormats = {}]>>],
     [Desktop EXCEPT !.devices = <<[Full EXCEPT !.api = 12]>>],
     [Desktop EXCEPT !.memory = <<{"deviceLocal"}, {"hostVisible"}>>],
     [Desktop EXCEPT !.linearBlit = FALSE]}

MCHosts == {Desktop, Plain} \cup Unfit
MCCapabilities == [presentation : BOOLEAN, rendering : BOOLEAN]
MCSizes == {<<0, 0>>, <<3, 4>>}
=============================================================================
